---- MODULE Spec2Model ----
(***************************************************************************)
(* node-ocr: the OCR request pipeline (performOcr) in its four source      *)
(* variants, the token cache of the direct-API service, the client pool of *)
(* the pooled service, and the batch handler of the HTTP server.           *)
(*                                                                         *)
(* Variants of performOcr (variable "variant"):                            *)
(*   "direct"  services/directApiOcrService.js   1..477  (axios + tokens)  *)
(*   "gapi"    services/directApiOcrService.js 479..731  (googleapis)      *)
(*   "pool1"   services/ocrService.js            1..303  (single cache key)*)
(*   "pool2"   services/ocrService.js          305..642  (key per identity)*)
(*                                                                         *)
(* Node runs every handler on one thread: code between two awaits is one   *)
(* atomic step.  Each action below is the code that runs from the          *)
(* completion of one awaited operation to the start of the next.           *)
(*                                                                         *)
(* Time is counted in units of 15 minutes; an age saturates at the first   *)
(* value from which the code's behaviour no longer changes.                *)
(***************************************************************************)
EXTENDS Integers, Sequences, FiniteSets, TLC

\* ---------------------------------------------------------------- bounds
\* number of performOcr executions of one run (they may all be in flight)
NumExec == 2
\* number of identities (credential files) of the credential source
NumIdent == 2
\* the most entries the credential source holds
MaxEntries == 2
\* the longest original file name
MaxNameLen == 3
\* the most files one multipart request carries
MaxFiles == 2

\* capacity of clientPool.  The source sets MAX_POOL_SIZE = 10 (pool1) and
\* 20 (pool2); the model keeps the ratio and scales both down so that
\* NumExec concurrent executions can fill the pool
MAX_POOL_SIZE_pool1 == 1
MAX_POOL_SIZE_pool2 == 2

\* ------------------------------------------------------------- constants
\* tokenCache ttl: 45 * 60 * 1000 ms = 3 units of 15 minutes
TOKEN_TTL == 3
\* lifetime of an issued access token: 3600 s = 4 units of 15 minutes
TOKEN_LIFETIME == 4
\* clientCache ttl: 30 * 60 * 1000 ms = 2 units of 15 minutes
CLIENT_TTL == 2

Execs == 1..NumExec
Idents == 1..NumIdent

\* what an export can return: the remote may legitimately return no text
ExportedTexts == {"", "ocr text"}

VARIABLES
  variant,      \* which source variant of the service is loaded
  pc,           \* pc[e]: the await at which execution e is suspended
  inputOk,      \* inputOk[e]: originalFileName is a string and imageData
                \* bytes (what performOcr's try block needs of its arguments)
  result,       \* result[e]: the Result object of execution e
  googleDocId,  \* googleDocId[e]: 0 (null) or the artifact id
  accessToken,  \* accessToken[e]: the local variable of the direct variant
  log,          \* log[e]: the Drive requests e has issued, in order
  failed,       \* failed[e]: the steps of e that failed (history)
  exported,     \* exported[e]: what the export returned to e (history)
  tokenCache,   \* tokenCache[i]: the LRU cache entry of identity i
  exchanges,    \* exchanges[i]: token exchanges requested for identity i
  googleClient, \* googleClient[e]: the client object e obtained, or NoClient
  clientPool,   \* the array clientPool of the pooled service
  clientCache,  \* clientCache[k]: the LRU cache entry under key k
  selected,     \* selected[e]: the identity getGoogleClient (pool2) selected
  request,      \* the body of the POST /api/ocr/base64 being handled
  response,     \* what its handler has sent
  silent,       \* the remote endpoints that have stopped answering
  credSource,   \* where the identities come from, and what it holds
  cachedCredentialFiles, \* the module variable of the direct variant
  credCall,     \* credCall[e]: the getRandomCredentials call of caller e
  fileNaming,   \* the names of one performOcr call: originalFileName,
                \* result.fileName and the safeFileName of the upload
  uploads,      \* uploads[r]: the r-th POST /api/ocr/upload: its files, the
                \* files performOcr was called for, and its response
  createdTempFiles, \* the Set of the temporary credential files tracked
  tempDisk,     \* the temporary credential files that exist on disk
  unremovable,  \* the temporary files the file system refuses to unlink
  cleanupRegistered, \* the flag of registerTempCleanup
  cleanupRuns,  \* cleanupRuns[run]: an invocation of cleanupTempFiles
  warm          \* the call of preWarmAuthTokens

vars == <<variant, pc, inputOk, result, googleDocId, accessToken, log, failed,
          exported, tokenCache, exchanges, googleClient, clientPool,
          clientCache, selected, request, response, silent, credSource,
          cachedCredentialFiles, credCall, fileNaming, uploads,
          createdTempFiles, tempDisk, unremovable, cleanupRegistered,
          cleanupRuns, warm>>

\* the variables of the environment of the service
credVars == <<credSource, cachedCredentialFiles, credCall>>
nameVars == <<fileNaming>>
uploadVars == <<uploads>>
tempVars == <<createdTempFiles, tempDisk, unremovable, cleanupRegistered,
              cleanupRuns>>
warmVars == <<warm>>
envVars == <<silent, credVars, nameVars, uploadVars, tempVars, warmVars>>

\* the variables of the batch handler
batchVars == <<request, response>>

\* the variables of the client pool, and those of the token broker
poolVars == <<googleClient, clientPool, clientCache, selected>>
tokenVars == <<accessToken, tokenCache, exchanges>>

\* ---------------------------------------------------------------- values
\* a token value: the identity it was issued for, and the execution whose
\* exchange returned it (every exchange returns a token of its own)
NullToken == [kind |-> "null", id |-> 0, by |-> 0]
UndefinedToken == [kind |-> "undefined", id |-> 0, by |-> 0]
Bearer(i, x) == [kind |-> "bearer", id |-> i, by |-> x]

\* JavaScript truthiness of a token value
Truthy(tok) == tok.kind = "bearer"

\* the remote can accept a request only if it carries a token it issued
\* (it answers "Bearer undefined" with 401)
RemoteAccepts(tok) == tok.kind = "bearer"

\* a client object: the identity it was authorized with, and which object
\* it is (objects are compared by reference; an execution creates at most
\* two, numbered 2e - 1 and 2e)
NoClient == [cred |-> 0, n |-> 0]
Client(i, n) == [cred |-> i, n |-> n]

NoCached == [present |-> FALSE, client |-> NoClient, age |-> 0]

\* cache keys of clientCache: 0 is 'google-client' (pool1), i > 0 is
\* 'google-client-credentials<i>.json' (pool2)
CacheKeys == 0..NumIdent

NoEntry == [present |-> FALSE, tok |-> NullToken, age |-> 0]

Min(a, b) == IF a < b THEN a ELSE b

Err(prefix, cause) == [p |-> prefix, c |-> cause]

\* the Result object as performOcr constructs it
InitResult(startKey) ==
  [success |-> FALSE, text |-> "", error |-> <<>>, credentialUsed |-> 0,
   timing |-> {startKey}]

Timed(r, key) == [r EXCEPT !.timing = @ \cup {key}]

Req(op, by) == [op |-> op, by |-> by]

\* outcomes of an awaited remote call: answered 2xx, answered with an error
\* status (error.response set), or no answer at all (transport error)
FailKinds == {"http", "net"}

\* ---------------------------------------------------------- token cache
\* fault: a cache that never answers
tokenCacheGet_AlwaysMiss(i) == UndefinedToken

\* fault: a cache that never lets an entry expire
tokenCacheGet_NoTtl(i) ==
  IF tokenCache[i].present THEN tokenCache[i].tok ELSE UndefinedToken

\* LRUCache.get: a stale entry (older than ttl) is a miss
tokenCacheGet(i) ==
  IF tokenCache[i].present /\ tokenCache[i].age <= TOKEN_TTL
    THEN tokenCache[i].tok
    ELSE UndefinedToken

\* fault: a token already cached is not replaced
tokenCacheSet_KeepFirst(i, tok) ==
  IF tokenCache[i].present THEN tokenCache
  ELSE [tokenCache EXCEPT ![i] = [present |-> TRUE, tok |-> tok, age |-> 0]]

\* LRUCache.set: storing undefined removes the key
tokenCacheSet(i, tok) ==
  [tokenCache EXCEPT ![i] =
     IF tok.kind = "undefined" THEN NoEntry
     ELSE [present |-> TRUE, tok |-> tok, age |-> 0]]

\* a request body: whether it is a JSON array, and its elements (a body
\* that is one object is handled as the array of that object)
NoRequest == [isArray |-> FALSE, items |-> <<>>]
NoResponse == [status |-> 0, envelope |-> FALSE, results |-> <<>>]

\* ------------------------------------------------------------------ Init
NoResult ==
  [success |-> FALSE, text |-> "", error |-> <<>>, credentialUsed |-> 0,
   timing |-> {}]

\* ------------------------------------------------- the credential source
\* an entry of the source is "valid" (a service-account key) or "malformed"
EntryKinds == {"valid", "malformed"}

SeqsUpTo(S, n) == UNION {[1..k -> S] : k \in 0..n}

\* mode "env": GOOGLE_CREDENTIALS is set, readable says that it parses to an
\* array, entries are its elements; mode "dir": the secure_files directory,
\* readable says that readdir succeeds, entries are its credentials*.json
\* files
Sources ==
  [mode : {"env", "dir"}, readable : BOOLEAN,
   entries : SeqsUpTo(EntryKinds, MaxEntries)]

NoSource == [mode |-> "dir", readable |-> FALSE, entries |-> <<>>]

\* what getCredentialFiles gives its caller: nothing yet, an array of n
\* paths (the k-th path is that of the k-th entry), or an exception
NoFiles == [kind |-> "none", files |-> <<>>]
FileList(n) == [kind |-> "list", files |-> [k \in 1..n |-> k]]
FilesError == [kind |-> "error", files |-> <<>>]

\* let cachedCredentialFiles = null
NullFiles == [kind |-> "null", files |-> <<>>]

\* what getRandomCredentials gives its caller: nothing yet, the credentials
\* of entry j, or an exception (raised while loading entry j, or 0)
NoPick == [kind |-> "none", entry |-> 0, cause |-> ""]
Picked(j) == [kind |-> "creds", entry |-> j, cause |-> ""]
PickError(j, cause) == [kind |-> "error", entry |-> j, cause |-> cause]

\* a call of getRandomCredentials: w counts the files it has written,
\* scanned says that it has listed the directory or written the bundle
NoCall ==
  [pc |-> "idle", files |-> NoFiles, picked |-> NoPick, w |-> 0,
   scanned |-> FALSE]

\* ------------------------------------------------------------ file names
\* a string is the sequence of its characters
Lower ==
  {"a", "b", "c", "d", "e", "f", "g", "h", "i", "j", "k", "l", "m", "n",
   "o", "p", "q", "r", "s", "t", "u", "v", "w", "x", "y", "z"}
Upper ==
  {"A", "B", "C", "D", "E", "F", "G", "H", "I", "J", "K", "L", "M", "N",
   "O", "P", "Q", "R", "S", "T", "U", "V", "W", "X", "Y", "Z"}
Digits == {"0", "1", "2", "3", "4", "5", "6", "7", "8", "9"}

\* the characters outside the class [^a-zA-Z0-9._-]
SafeChars == Lower \cup Upper \cup Digits \cup {".", "_", "-"}

\* the characters the original file names are drawn from
NameChars == {"a", "Z", "7", ".", "_", "-", "/", " "}
FileNames == SeqsUpTo(NameChars, MaxNameLen)

\* the values of Date.now(), as their decimal digits
Timestamps == {<<"7">>, <<"4", "2">>}

\* fault: the name used as it is
replaceUnsafe_Keep(name) == name

\* originalFileName.replace(/[^a-zA-Z0-9._-]/g, "_")
replaceUnsafe(name) ==
  [k \in 1..Len(name) |-> IF name[k] \in SafeChars THEN name[k] ELSE "_"]

\* "ocr_direct_" + originalFileName.replace(...) + "_" + Date.now()
NamePrefix == <<"o", "c", "r", "_", "d", "i", "r", "e", "c", "t", "_">>
safeFileName(name, now) == NamePrefix \o replaceUnsafe(name) \o <<"_">> \o now

\* before performOcr is called with the name
NoNaming(name) ==
  [pc |-> "idle", originalFileName |-> name, fileName |-> <<>>,
   safeFileName |-> <<>>]

\* ---------------------------------------------------- multipart requests
\* a POST /api/ocr/upload that has not arrived: files is the length of
\* req.files (-1: no request), called the indices in req.files of the files
\* performOcr was called for
NoUpload == [files |-> -1, called |-> <<>>, response |-> NoResponse]

\* ------------------------------------------------------- temporary files
\* credentials<k>.json in the directory ocr-api-credentials of os.tmpdir()
TempFiles == 1..MaxEntries

\* the invocations of cleanupTempFiles, named by what makes them: a direct
\* call, the token exchange of an execution, the warm-up of a file and the
\* end of the warm-up, the exit listener, the listener of a signal
Signals == {1, 2}
Runs ==
  ({"call"} \X (1..NumExec)) \cup ({"exchange"} \X Execs)
    \cup ({"warm"} \X TempFiles) \cup {<<"prewarm", 0>>, <<"exit", 0>>}
    \cup ({"signal"} \X Signals)

\* an invocation: not made, awaiting the unlink of the first file of todo,
\* awaiting rmdir, or returned
NoRun == [pc |-> "idle", todo |-> <<>>]

\* the call of preWarmAuthTokens: where it is, the warm-up task of each
\* file (not made, awaiting readFile, awaiting the token exchange, warmed,
\* failed), and the identities whose token exchange the endpoint accepts
NoWarm ==
  [pc |-> "idle", task |-> [k \in TempFiles |-> "none"], accepts |-> {}]

\* the process runs until its exit event, at which the exit listener makes
\* its invocation
Alive == cleanupRuns[<<"exit", 0>>] = NoRun

\* Array.from(createdTempFiles), in the order of the file numbers
RECURSIVE SetToSeq(_)
SetToSeq(S) ==
  IF S = {} THEN <<>>
  ELSE LET m == CHOOSE x \in S : \A y \in S : x <= y
       IN  <<m>> \o SetToSeq(S \ {m})

\* cleanupTempFiles is called: it runs to its first await, the unlink of
\* the first tracked file, or rmdir when no file is tracked
cleanupStarted(tracked) ==
  IF tracked = {} THEN [pc |-> "rmdir", todo |-> <<>>]
  ELSE [pc |-> "unlink", todo |-> SetToSeq(tracked)]

\* fault: the token exchange never calls cleanupTempFiles
cleanupTriggered_Never(tracked) == FALSE

\* if (createdTempFiles.size > 0), after a token exchange
cleanupTriggered(tracked) == tracked # {}

InitCommon ==
  /\ pc = [e \in Execs |-> "idle"]
  /\ inputOk = [e \in Execs |-> TRUE]
  /\ result = [e \in Execs |-> NoResult]
  /\ googleDocId = [e \in Execs |-> 0]
  /\ accessToken = [e \in Execs |-> NullToken]
  /\ log = [e \in Execs |-> <<>>]
  /\ failed = [e \in Execs |-> {}]
  /\ exported = [e \in Execs |-> ""]
  /\ tokenCache = [i \in Idents |-> NoEntry]
  /\ exchanges = [i \in Idents |-> 0]
  /\ googleClient = [e \in Execs |-> NoClient]
  /\ clientPool = <<>>
  /\ clientCache = [k \in CacheKeys |-> NoCached]
  /\ selected = [e \in Execs |-> 0]
  /\ request = NoRequest
  /\ response = NoResponse
  /\ silent = {}
  /\ cachedCredentialFiles = NullFiles
  /\ credCall = [e \in Execs |-> NoCall]
  /\ uploads = [r \in Execs |-> NoUpload]
  /\ cleanupRegistered = FALSE
  /\ cleanupRuns = [run \in Runs |-> NoRun]
  /\ warm = NoWarm

\* no credential source and no file name: the specifications that look at
\* them choose their own
NoTempFiles ==
  /\ createdTempFiles = {}
  /\ tempDisk = {}
  /\ unremovable = {}

InitEnv ==
  /\ credSource = NoSource
  /\ fileNaming = NoNaming(<<>>)
  /\ NoTempFiles

Init ==
  /\ variant = "direct"
  /\ InitCommon
  /\ InitEnv

\* an exception leaves performOcr: its caller sees the rejection, not r
Raise(e, r) ==
  /\ pc' = [pc EXCEPT ![e] = "raised"]
  /\ result' = [result EXCEPT ![e] = r]
  /\ UNCHANGED log

\* executions are anonymous: the k-th invocation of performOcr is named k
MayStart(e) == pc[e] = "idle" /\ (IF e = 1 THEN TRUE ELSE pc[e - 1] # "idle")

\* ============================================================ "direct"
\* the remote calls of the direct-API service
Endpoints == {"token", "upload", "export", "delete"}

\* the requests carry no timeout option (axios then waits without limit):
\* the code after an await runs only if the endpoint answers
Answers(op) == op \notin silent

\* an endpoint stops answering, for good
remoteGoesSilent(op) ==
  /\ variant = "direct"
  /\ op \notin silent
  /\ silent' = silent \cup {op}
  /\ UNCHANGED <<variant, pc, inputOk, result, googleDocId, log, failed,
                 exported>>
  /\ UNCHANGED <<tokenVars, poolVars, batchVars, credVars, nameVars, uploadVars,
                 tempVars, warm>>

\* catch (error) of performOcr: error.response decides the message
directCatch(r, cause, kind) ==
  [r EXCEPT !.error =
     IF kind = "http" THEN <<Err("API Error", cause)>>
     ELSE <<Err("Processing Error", cause)>>]

\* fault: the failed delete reported as if the pipeline had failed
directCleanupError_AsProcessingError(r) ==
  [r EXCEPT !.error = Append(@, Err("Processing Error", "delete"))]

\* catch (deleteError): set the error, or append to the one already there
directCleanupError(r) ==
  [r EXCEPT !.error =
     IF @ = <<>> THEN <<Err("Cleanup Error", "delete")>>
     ELSE Append(@, Err("; Cleanup Error", "delete"))]

\* fault: the delete issued whether or not there is a document
directNeedsDelete_Always(gid, tok) == TRUE

\* the guard of the delete in the finally block
directNeedsDelete(gid, tok) == gid # 0 /\ Truthy(tok)

\* the finally block up to its first await: issue the delete, or return
directFinally(e, r, gid) ==
  IF directNeedsDelete(gid, accessToken[e])
    THEN /\ log' = [log EXCEPT ![e] = Append(@, Req("delete", accessToken[e].id))]
         /\ pc' = [pc EXCEPT ![e] = "delete"]
         /\ result' = [result EXCEPT ![e] = r]
    ELSE /\ pc' = [pc EXCEPT ![e] = "done"]
         /\ result' = [result EXCEPT ![e] = Timed(r, "total_duration_direct_api")]
         /\ UNCHANGED log

\* fault: the file name built outside the try block
directGuarded_InputOutside ==
  {"credentials", "token", "upload", "export", "delete"}

\* the steps of performOcr that run inside a try block: the pipeline in
\* try { } catch (error), the delete in try { } catch (deleteError)
directGuarded == {"credentials", "token", "input", "upload", "export", "delete"}

\* a step of the pipeline throws
directThrow(e, r, step, kind, gid) ==
  IF step \in directGuarded
    THEN directFinally(e, directCatch(r, step, kind), gid)
    ELSE Raise(e, r)

\* with the token in hand the try block builds the request body, which
\* throws a TypeError on arguments of the wrong type, and issues the upload
directStartUpload(e, r, tok, f) ==
  IF inputOk[e]
    THEN /\ log' = [log EXCEPT ![e] = Append(@, Req("upload", tok.id))]
         /\ pc' = [pc EXCEPT ![e] = "upload"]
         /\ result' = [result EXCEPT ![e] = r]
         /\ failed' = [failed EXCEPT ![e] = f]
    ELSE /\ failed' = [failed EXCEPT ![e] = f \cup {"input"}]
         /\ directThrow(e, r, "input", "net", 0)

\* performOcr is called: the Result is built, getRandomCredentials awaited
directPerformOcr(e) ==
  /\ variant = "direct"
  /\ MayStart(e)
  /\ \E ok \in BOOLEAN : inputOk' = [inputOk EXCEPT ![e] = ok]
  /\ pc' = [pc EXCEPT ![e] = "creds"]
  /\ result' = [result EXCEPT ![e] = InitResult("0_start_direct_api")]
  /\ UNCHANGED poolVars
  /\ UNCHANGED <<variant, googleDocId, accessToken, log, failed, exported,
                 tokenCache, exchanges>>
  /\ UNCHANGED <<batchVars, envVars>>

\* getRandomCredentials returns or throws; on return getAccessToken runs up
\* to its first await: a cache hit goes on to the upload, a miss to the
\* token exchange.  With a credential source (credSource) the outcome is
\* that of the call credCall[e]; without one, any outcome
directGetRandomCredentials(e) ==
  /\ variant = "direct"
  /\ pc[e] = "creds"
  /\ \E out \in {"ok", "empty", "throw", "unreadable"} :
       /\ credSource # NoSource =>
            /\ credCall[e].pc = "done"
            /\ out = (IF credCall[e].picked.kind = "creds" THEN "ok"
                      ELSE "throw")
       /\ IF out = "ok"
         THEN \E i \in Idents :
                /\ credSource # NoSource => i = credCall[e].picked.entry
                /\
                 LET r1 == [result[e] EXCEPT !.credentialUsed = i]
                     tok == tokenCacheGet(i)
                 IN IF Truthy(tok)
                      THEN /\ accessToken' = [accessToken EXCEPT ![e] = tok]
                           /\ directStartUpload(e, Timed(r1, "1_auth_token"), tok,
                                                failed[e])
                           /\ UNCHANGED exchanges
                      ELSE /\ result' = [result EXCEPT ![e] = r1]
                           /\ UNCHANGED log
                           /\ exchanges' = [exchanges EXCEPT ![i] = @ + 1]
                           /\ pc' = [pc EXCEPT ![e] = "exchange"]
                           /\ UNCHANGED <<accessToken, failed>>
         ELSE /\ failed' = [failed EXCEPT ![e] = @ \cup {"credentials"}]
              /\ directThrow(e, result[e], "credentials", "net", 0)
              /\ UNCHANGED <<accessToken, exchanges>>
  /\ UNCHANGED poolVars
  /\ UNCHANGED <<variant, googleDocId, exported, tokenCache>>
  /\ UNCHANGED <<inputOk, batchVars, envVars>>

\* the token endpoint answers (or not): getAccessToken caches and returns
\* response.data.access_token, or throws a new Error without .response;
\* before it returns it calls cleanupTempFiles, without awaiting it, when
\* files are tracked
directGetAccessToken(e) ==
  /\ variant = "direct"
  /\ pc[e] = "exchange"
  /\ Answers("token")
  /\ LET i == result[e].credentialUsed IN
     \E out \in {"token", "no_token"} \cup FailKinds :
       IF out \in FailKinds
         THEN /\ failed' = [failed EXCEPT ![e] = @ \cup {"token"} \cup
                     (IF out = "http" THEN {"token_status"} ELSE {})]
              /\ directThrow(e, result[e], "token", "net", 0)
              /\ UNCHANGED <<accessToken, tokenCache, cleanupRuns>>
         ELSE LET tok == IF out = "token" THEN Bearer(i, e) ELSE UndefinedToken IN
              /\ tokenCache' = tokenCacheSet(i, tok)
              /\ cleanupRuns' =
                   IF cleanupTriggered(createdTempFiles)
                     THEN [cleanupRuns EXCEPT ![<<"exchange", e>>] =
                             cleanupStarted(createdTempFiles)]
                     ELSE cleanupRuns
              /\ accessToken' = [accessToken EXCEPT ![e] = tok]
              /\ directStartUpload(e, Timed(result[e], "1_auth_token"), tok,
                     IF out = "no_token" THEN failed[e] \cup {"token"} ELSE failed[e])
  /\ UNCHANGED poolVars
  /\ UNCHANGED <<variant, googleDocId, exported, exchanges>>
  /\ UNCHANGED <<inputOk, batchVars>>
  /\ UNCHANGED <<silent, warm, credVars, nameVars, uploadVars>>
  /\ UNCHANGED <<createdTempFiles, tempDisk, unremovable, cleanupRegistered>>

\* the upload answers: an id goes on to the export; no id, an error status
\* or no answer is caught
directUpload(e) ==
  /\ variant = "direct"
  /\ pc[e] = "upload"
  /\ Answers("upload")
  /\ \E out \in (IF RemoteAccepts(accessToken[e]) THEN {"id", "no_id"} ELSE {})
                  \cup FailKinds :
       IF out = "id"
         THEN /\ googleDocId' = [googleDocId EXCEPT ![e] = e]
              /\ result' = [result EXCEPT ![e] = Timed(@, "2_upload_to_gdoc")]
              /\ log' = [log EXCEPT ![e] = Append(@, Req("export", accessToken[e].id))]
              /\ pc' = [pc EXCEPT ![e] = "export"]
              /\ UNCHANGED failed
         ELSE /\ failed' = [failed EXCEPT ![e] = @ \cup {"upload"}]
              /\ directThrow(e, result[e], "upload", IF out = "no_id" THEN "net" ELSE out, 0)
              /\ UNCHANGED googleDocId
  /\ UNCHANGED poolVars
  /\ UNCHANGED <<variant, accessToken, exported, tokenCache, exchanges>>
  /\ UNCHANGED <<inputOk, batchVars, envVars>>

\* fault: the text stored without success being set
directExported_TextOnly(r, text) ==
  Timed([r EXCEPT !.text = text], "3_export_as_text")

\* what the try block does with the export's answer
directExported(r, text) ==
  Timed([r EXCEPT !.success = TRUE, !.text = text], "3_export_as_text")

\* the export answers: success and text are set, or the error is caught;
\* either way the finally block issues the delete
directExport(e) ==
  /\ variant = "direct"
  /\ pc[e] = "export"
  /\ Answers("export")
  /\ \E out \in (IF RemoteAccepts(accessToken[e]) THEN {"ok"} ELSE {})
                  \cup FailKinds :
       IF out = "ok"
         THEN \E text \in ExportedTexts :
                /\ exported' = [exported EXCEPT ![e] = text]
                /\ directFinally(e, directExported(result[e], text), googleDocId[e])
                /\ UNCHANGED failed
         ELSE /\ failed' = [failed EXCEPT ![e] = @ \cup {"export"}]
              /\ directThrow(e, result[e], "export", out, googleDocId[e])
              /\ UNCHANGED exported
  /\ UNCHANGED poolVars
  /\ UNCHANGED <<variant, googleDocId, accessToken, tokenCache, exchanges>>
  /\ UNCHANGED <<inputOk, batchVars, envVars>>

\* the delete answers: its timing is recorded, or its error is kept
directDelete(e) ==
  /\ variant = "direct"
  /\ pc[e] = "delete"
  /\ Answers("delete")
  /\ \E out \in (IF RemoteAccepts(accessToken[e]) THEN {"ok"} ELSE {})
                  \cup FailKinds :
       IF out = "ok"
         THEN /\ result' = [result EXCEPT ![e] =
                   Timed(Timed(@, "4_delete_temp_doc"), "total_duration_direct_api")]
              /\ pc' = [pc EXCEPT ![e] = "done"]
              /\ UNCHANGED failed
         ELSE /\ result' = [result EXCEPT ![e] =
                   IF "delete" \in directGuarded
                     THEN Timed(directCleanupError(@), "total_duration_direct_api")
                     ELSE @]
              /\ pc' = [pc EXCEPT ![e] =
                   IF "delete" \in directGuarded THEN "done" ELSE "raised"]
              /\ failed' = [failed EXCEPT ![e] = @ \cup {"delete"}]
  /\ UNCHANGED poolVars
  /\ UNCHANGED <<variant, googleDocId, accessToken, log, exported, tokenCache,
                 exchanges>>
  /\ UNCHANGED <<inputOk, batchVars, envVars>>

\* ============================================================== "gapi"
\* catch (error) of performOcr
gapiCatch(r, cause) == [r EXCEPT !.error = <<Err("Processing Error", cause)>>]

\* catch (deleteError): set the error, or append to the one already there
gapiCleanupError(r, cause) ==
  [r EXCEPT !.error =
     IF @ = <<>> THEN <<Err("Failed to delete temporary Google Doc", cause)>>
     ELSE Append(@, Err("; Cleanup errors: Failed to delete temporary Google Doc",
                        cause))]

\* the finally block up to its first await: with an artifact id it asks
\* getGoogleClient for a client again, else it returns
gapiFinally(e, r, gid) ==
  IF gid # 0
    THEN /\ pc' = [pc EXCEPT ![e] = "reauth"]
         /\ result' = [result EXCEPT ![e] = r]
    ELSE /\ pc' = [pc EXCEPT ![e] = "done"]
         /\ result' = [result EXCEPT ![e] = Timed(r, "total_duration")]

\* the steps of performOcr that run inside a try block
gapiGuarded ==
  {"credentials", "input", "upload", "export", "delete_client", "delete"}

\* a step of the pipeline throws
gapiThrow(e, r, step, gid) ==
  IF step \in gapiGuarded
    THEN gapiFinally(e, gapiCatch(r, step), gid)
    ELSE Raise(e, r)

\* with the client in hand the try block builds the file name, which
\* throws a TypeError on arguments of the wrong type, and issues the upload
gapiStartUpload(e, r, c) ==
  IF inputOk[e]
    THEN /\ log' = [log EXCEPT ![e] = Append(@, Req("upload", c.cred))]
         /\ pc' = [pc EXCEPT ![e] = "upload"]
         /\ result' = [result EXCEPT ![e] = r]
         /\ UNCHANGED failed
    ELSE /\ failed' = [failed EXCEPT ![e] = @ \cup {"input"}]
         /\ gapiThrow(e, r, "input", 0)
         /\ UNCHANGED log

\* performOcr is called: the Result is built, getGoogleClient awaited
gapiPerformOcr(e) ==
  /\ variant = "gapi"
  /\ MayStart(e)
  /\ \E ok \in BOOLEAN : inputOk' = [inputOk EXCEPT ![e] = ok]
  /\ pc' = [pc EXCEPT ![e] = "client"]
  /\ result' = [result EXCEPT ![e] = InitResult("0_start")]
  /\ UNCHANGED <<variant, googleDocId, log, failed, exported>>
  /\ UNCHANGED <<tokenVars, poolVars>>
  /\ UNCHANGED <<batchVars, envVars>>

\* getGoogleClient returns a client for a random identity, or throws; on
\* return the upload is issued
gapiGetGoogleClient(e) ==
  /\ variant = "gapi"
  /\ pc[e] = "client"
  /\ \E out \in {"ok", "fail"} :
       IF out = "ok"
         THEN \E i \in Idents :
                /\ googleClient' = [googleClient EXCEPT ![e] = Client(i, 2 * e - 1)]
                /\ gapiStartUpload(e, [result[e] EXCEPT !.credentialUsed = i],
                                   Client(i, 2 * e - 1))
         ELSE /\ failed' = [failed EXCEPT ![e] = @ \cup {"credentials"}]
              /\ gapiThrow(e, result[e], "credentials", 0)
              /\ UNCHANGED <<googleClient, log>>
  /\ UNCHANGED <<variant, googleDocId, exported, clientPool, clientCache,
                 selected>>
  /\ UNCHANGED tokenVars
  /\ UNCHANGED <<inputOk, batchVars, envVars>>

\* the upload answers: the id is stored and the timing recorded before the
\* id is tested
gapiUpload(e) ==
  /\ variant = "gapi"
  /\ pc[e] = "upload"
  /\ \E out \in {"id", "no_id", "fail"} :
       LET r1 == Timed(result[e], "1_upload_and_convert_to_gdoc_ocr") IN
       IF out = "id"
         THEN /\ googleDocId' = [googleDocId EXCEPT ![e] = e]
              /\ result' = [result EXCEPT ![e] = r1]
              /\ log' = [log EXCEPT ![e] = Append(@, Req("export", googleClient[e].cred))]
              /\ pc' = [pc EXCEPT ![e] = "export"]
              /\ UNCHANGED failed
         ELSE /\ failed' = [failed EXCEPT ![e] = @ \cup {"upload"}]
              /\ gapiThrow(e, IF out = "no_id" THEN r1 ELSE result[e], "upload", 0)
              /\ UNCHANGED <<googleDocId, log>>
  /\ UNCHANGED <<variant, exported>>
  /\ UNCHANGED <<tokenVars, poolVars>>
  /\ UNCHANGED <<inputOk, batchVars, envVars>>

\* what the try block does with the export's answer
gapiExported(r, text) ==
  Timed([r EXCEPT !.success = TRUE, !.text = text], "2_export_doc_as_text")

\* the export answers; either way the finally block runs
gapiExport(e) ==
  /\ variant = "gapi"
  /\ pc[e] = "export"
  /\ \E out \in {"ok", "fail"} :
       IF out = "ok"
         THEN \E text \in ExportedTexts :
                /\ exported' = [exported EXCEPT ![e] = text]
                /\ gapiFinally(e, gapiExported(result[e], text), googleDocId[e])
                /\ UNCHANGED failed
         ELSE /\ failed' = [failed EXCEPT ![e] = @ \cup {"export"}]
              /\ gapiThrow(e, result[e], "export", googleDocId[e])
              /\ UNCHANGED exported
  /\ UNCHANGED <<variant, googleDocId, log>>
  /\ UNCHANGED <<tokenVars, poolVars>>
  /\ UNCHANGED <<inputOk, batchVars, envVars>>

\* the getGoogleClient of the finally block returns a client for a random
\* identity, with which the delete is issued, or throws into the catch of
\* the delete
gapiDeleteClient(e) ==
  /\ variant = "gapi"
  /\ pc[e] = "reauth"
  /\ \E out \in {"ok", "fail"} :
       IF out = "ok"
         THEN \E j \in Idents :
                /\ log' = [log EXCEPT ![e] = Append(@, Req("delete", j))]
                /\ pc' = [pc EXCEPT ![e] = "delete"]
                /\ UNCHANGED <<failed, result>>
         ELSE /\ failed' = [failed EXCEPT ![e] = @ \cup {"delete_client"}]
              /\ result' = [result EXCEPT ![e] =
                   IF "delete_client" \in gapiGuarded
                     THEN Timed(gapiCleanupError(@, "credentials"),
                                "total_duration")
                     ELSE @]
              /\ pc' = [pc EXCEPT ![e] =
                   IF "delete_client" \in gapiGuarded THEN "done" ELSE "raised"]
              /\ UNCHANGED log
  /\ UNCHANGED <<variant, googleDocId, exported, googleClient, clientPool,
                 clientCache, selected>>
  /\ UNCHANGED tokenVars
  /\ UNCHANGED <<inputOk, batchVars, envVars>>

\* the delete answers: its timing is recorded, or its error is kept
gapiDelete(e) ==
  /\ variant = "gapi"
  /\ pc[e] = "delete"
  /\ \E out \in {"ok", "fail"} :
       IF out = "ok"
         THEN /\ result' = [result EXCEPT ![e] =
                   Timed(Timed(@, "3_delete_temp_gdoc"), "total_duration")]
              /\ pc' = [pc EXCEPT ![e] = "done"]
              /\ UNCHANGED failed
         ELSE /\ result' = [result EXCEPT ![e] =
                   IF "delete" \in gapiGuarded
                     THEN Timed(gapiCleanupError(@, "delete"), "total_duration")
                     ELSE @]
              /\ pc' = [pc EXCEPT ![e] =
                   IF "delete" \in gapiGuarded THEN "done" ELSE "raised"]
              /\ failed' = [failed EXCEPT ![e] = @ \cup {"delete"}]
  /\ UNCHANGED <<variant, googleDocId, log, exported>>
  /\ UNCHANGED <<tokenVars, poolVars>>
  /\ UNCHANGED <<inputOk, batchVars, envVars>>

\* ===================================================== client pool, cache
\* LRUCache.get with ttl: a stale entry (older than ttl) is a miss
clientCacheGet(k) ==
  IF clientCache[k].present /\ clientCache[k].age <= CLIENT_TTL
    THEN clientCache[k].client
    ELSE NoClient

\* updateAgeOnGet: a hit makes the entry new again
clientCacheTouch(k) == [clientCache EXCEPT ![k].age = 0]

clientCacheSet(k, c) ==
  [clientCache EXCEPT ![k] = [present |-> TRUE, client |-> c, age |-> 0]]

\* fault: the first client returned without being taken out of the pool
poolShift_Keep(pool) == pool

\* clientPool.shift(): what is left of the pool
poolShift(pool) == Tail(pool)

\* fault: the client dropped instead of released
poolRelease_Drop(pool, c, max) == pool

\* fault: a release that does not look at the size of the pool
poolRelease_Unbounded(pool, c, max) ==
  IF c # NoClient THEN Append(pool, c) ELSE pool

\* the release in the finally block: push unless there is no client or the
\* pool is full
poolRelease(pool, c, max) ==
  IF c # NoClient /\ Len(pool) < max THEN Append(pool, c) ELSE pool

\* ============================================================= "pool1"
\* catch (error) of performOcr
pool1Catch(r, cause, kind) ==
  [r EXCEPT !.error = <<Err("Processing Error", cause)>>]

\* fault: a failed delete whose error replaces the one already there
pool1CleanupError_Overwrite(r, cause) ==
  [r EXCEPT !.error = <<Err("Failed to delete temporary Google Doc", cause)>>]

\* the handling of a failed delete: set the error, or append to the one
\* already there
pool1CleanupError(r, cause) ==
  [r EXCEPT !.error =
     IF @ = <<>> THEN <<Err("Failed to delete temporary Google Doc", cause)>>
     ELSE Append(@, Err("; Cleanup errors: Failed to delete temporary Google Doc", cause))]


\* the finally block up to its first await: the client c goes back to the
\* pool (pool as it is when the block runs), then the delete is issued
\* with that same client, or performOcr returns
pool1Finally(e, r, gid, c, pool) ==
  /\ clientPool' = poolRelease(pool, c, MAX_POOL_SIZE_pool1)
  /\ IF gid # 0
       THEN /\ log' = [log EXCEPT ![e] = Append(@, Req("delete", c.cred))]
            /\ pc' = [pc EXCEPT ![e] = "delete"]
            /\ result' = [result EXCEPT ![e] = r]
       ELSE /\ pc' = [pc EXCEPT ![e] = "done"]
            /\ result' = [result EXCEPT ![e] = Timed(r, "total_duration")]
            /\ UNCHANGED log

\* the steps of performOcr that run inside a try block
pool1Guarded == {"credentials", "input", "upload", "export", "delete"}

\* a step of the pipeline throws
pool1Throw(e, r, step, kind, gid, c, pool) ==
  IF step \in pool1Guarded
    THEN pool1Finally(e, pool1Catch(r, step, kind), gid, c, pool)
    ELSE Raise(e, r) /\ clientPool' = pool

\* performOcr has its client c (pool: the pool without it): the try block
\* builds the file name, which throws a TypeError on arguments of the wrong
\* type, and issues the upload
pool1GotClient(e, c, r, pool, ok) ==
  /\ googleClient' = [googleClient EXCEPT ![e] = c]
  /\ IF ok
       THEN /\ result' = [result EXCEPT ![e] =
                 Timed([r EXCEPT !.credentialUsed = c.cred], "0.5_get_client")]
            /\ log' = [log EXCEPT ![e] = Append(@, Req("upload", c.cred))]
            /\ pc' = [pc EXCEPT ![e] = "upload"]
            /\ clientPool' = pool
            /\ UNCHANGED failed
       ELSE /\ failed' = [failed EXCEPT ![e] = @ \cup {"input"}]
            /\ pool1Throw(e, Timed([r EXCEPT !.credentialUsed = c.cred], "0.5_get_client"), "input", "net", 0, c, pool)

\* performOcr is called: the Result is built and getGoogleClient runs up to
\* its first await: a pooled client or the cached client is returned at
\* once, else the credential files are awaited
pool1PerformOcr(e) ==
  /\ variant = "pool1"
  /\ MayStart(e)
  /\ \E ok \in BOOLEAN :
       LET r0 == InitResult("0_start") IN
       /\ inputOk' = [inputOk EXCEPT ![e] = ok]
       /\ IF Len(clientPool) > 0
            THEN /\ pool1GotClient(e, Head(clientPool), r0, poolShift(clientPool), ok)
                 /\ UNCHANGED clientCache
            ELSE IF clientCacheGet(0) # NoClient
              THEN /\ clientCache' = clientCacheTouch(0)
                   /\ pool1GotClient(e, clientCacheGet(0), r0, clientPool, ok)
              ELSE /\ pc' = [pc EXCEPT ![e] = "client"]
                   /\ result' = [result EXCEPT ![e] = r0]
                   /\ UNCHANGED <<googleClient, log, failed, clientPool,
                                  clientCache>>
  /\ UNCHANGED <<variant, googleDocId, exported>>
  /\ UNCHANGED <<tokenVars, selected, batchVars, envVars>>

\* the rest of getGoogleClient: credential files, a random identity, its
\* file, authorization; the new client object is cached and returned, or
\* getGoogleClient throws and performOcr catches
pool1GetGoogleClient(e) ==
  /\ variant = "pool1"
  /\ pc[e] = "client"
  /\ \E out \in {"ok", "fail"} :
       IF out = "ok"
         THEN \E i \in Idents :
                /\ clientCache' = clientCacheSet(0, Client(i, e))
                /\ pool1GotClient(e, Client(i, e), result[e], clientPool,
                                  inputOk[e])
         ELSE /\ failed' = [failed EXCEPT ![e] = @ \cup {"credentials"}]
              /\ pool1Throw(e, result[e], "credentials", "net", 0, NoClient, clientPool)
              /\ UNCHANGED <<googleClient, clientCache>>
  /\ UNCHANGED <<variant, googleDocId, exported>>
  /\ UNCHANGED <<tokenVars, selected>>
  /\ UNCHANGED <<inputOk, batchVars, envVars>>

\* the upload answers: the id is stored and the timing recorded before the
\* id is tested
pool1Upload(e) ==
  /\ variant = "pool1"
  /\ pc[e] = "upload"
  /\ \E out \in {"id", "no_id"} \cup FailKinds :
       LET r1 == Timed(result[e], "1_upload_and_convert_to_gdoc_ocr") IN
       IF out = "id"
         THEN /\ googleDocId' = [googleDocId EXCEPT ![e] = e]
              /\ result' = [result EXCEPT ![e] = r1]
              /\ log' = [log EXCEPT ![e] = Append(@, Req("export", googleClient[e].cred))]
              /\ pc' = [pc EXCEPT ![e] = "export"]
              /\ UNCHANGED <<failed, clientPool>>
         ELSE /\ failed' = [failed EXCEPT ![e] = @ \cup {"upload"}]
              /\ pool1Throw(e, IF out = "no_id" THEN r1 ELSE result[e], "upload", IF out = "no_id" THEN "net" ELSE out, 0, googleClient[e], clientPool)
              /\ UNCHANGED googleDocId
  /\ UNCHANGED <<variant, exported, googleClient, clientCache>>
  /\ UNCHANGED <<tokenVars, selected>>
  /\ UNCHANGED <<inputOk, batchVars, envVars>>

\* what the try block does with the export's answer
pool1Exported(r, text) ==
  Timed([r EXCEPT !.success = TRUE, !.text = text], "2_export_doc_as_text")

\* the export answers; either way the finally block runs
pool1Export(e) ==
  /\ variant = "pool1"
  /\ pc[e] = "export"
  /\ \E out \in {"ok"} \cup FailKinds :
       IF out = "ok"
         THEN \E text \in ExportedTexts :
                /\ exported' = [exported EXCEPT ![e] = text]
                /\ pool1Finally(e, pool1Exported(result[e], text), googleDocId[e],
                                googleClient[e], clientPool)
                /\ UNCHANGED failed
         ELSE /\ failed' = [failed EXCEPT ![e] = @ \cup {"export"}]
              /\ pool1Throw(e, result[e], "export", out, googleDocId[e], googleClient[e], clientPool)
              /\ UNCHANGED exported
  /\ UNCHANGED <<variant, googleDocId, googleClient, clientCache>>
  /\ UNCHANGED <<tokenVars, selected>>
  /\ UNCHANGED <<inputOk, batchVars, envVars>>

\* the delete answers
pool1Delete(e) ==
  /\ variant = "pool1"
  /\ pc[e] = "delete"
  /\ \E out \in {"ok"} \cup FailKinds :
       IF out = "ok"
         THEN /\ result' = [result EXCEPT ![e] =
                   Timed(Timed(@, "3_delete_temp_gdoc"), "total_duration")]
              /\ pc' = [pc EXCEPT ![e] = "done"]
              /\ UNCHANGED failed
         ELSE /\ result' = [result EXCEPT ![e] =
                   IF "delete" \in pool1Guarded
                     THEN Timed(pool1CleanupError(@, "delete"), "total_duration")
                     ELSE @]
              /\ pc' = [pc EXCEPT ![e] =
                   IF "delete" \in pool1Guarded THEN "done" ELSE "raised"]
              /\ failed' = [failed EXCEPT ![e] = @ \cup {"delete"}]
  /\ UNCHANGED <<variant, googleDocId, log, exported>>
  /\ UNCHANGED <<tokenVars, poolVars>>
  /\ UNCHANGED <<inputOk, batchVars, envVars>>

\* ============================================================= "pool2"
\* catch (error) of performOcr
pool2Catch(r, cause, kind) ==
  [r EXCEPT !.error =
     IF kind = "http" THEN <<Err("Google API Error", cause)>>
     ELSE <<Err("Processing Error", cause)>>]

\* fault: a failed delete that takes the export's outcome back
pool2CleanupError_Flip(r, cause) ==
  [r EXCEPT !.success = FALSE, !.text = "",
            !.error = Append(@, Err("Failed to delete temporary Google Doc",
                                    cause))]

\* the handling of a failed delete: set the error, or append to the one
\* already there
pool2CleanupError(r, cause) ==
  [r EXCEPT !.error =
     IF @ = <<>> THEN <<Err("Failed to delete temporary Google Doc", cause)>>
     ELSE Append(@, Err("; Cleanup errors: Failed to delete temporary Google Doc", cause))]


\* the finally block up to its first await: the client c goes back to the
\* pool (pool as it is when the block runs), then the delete is issued
\* with that same client, or performOcr returns
pool2Finally(e, r, gid, c, pool) ==
  /\ clientPool' = poolRelease(pool, c, MAX_POOL_SIZE_pool2)
  /\ IF gid # 0
       THEN /\ log' = [log EXCEPT ![e] = Append(@, Req("delete", c.cred))]
            /\ pc' = [pc EXCEPT ![e] = "delete"]
            /\ result' = [result EXCEPT ![e] = r]
       ELSE /\ pc' = [pc EXCEPT ![e] = "done"]
            /\ result' = [result EXCEPT ![e] = Timed(Timed(r, "3_delete_temp_gdoc"), "total_duration_js_script")]
            /\ UNCHANGED log

\* the steps of performOcr that run inside a try block
pool2Guarded == {"credentials", "input", "upload", "export", "delete"}

\* a step of the pipeline throws
pool2Throw(e, r, step, kind, gid, c, pool) ==
  IF step \in pool2Guarded
    THEN pool2Finally(e, pool2Catch(r, step, kind), gid, c, pool)
    ELSE Raise(e, r) /\ clientPool' = pool

\* performOcr has its client c (pool: the pool without it): the try block
\* builds the file name, which throws a TypeError on arguments of the wrong
\* type, and issues the upload
pool2GotClient(e, c, r, pool, ok) ==
  /\ googleClient' = [googleClient EXCEPT ![e] = c]
  /\ IF ok
       THEN /\ result' = [result EXCEPT ![e] =
                 [r EXCEPT !.credentialUsed = c.cred]]
            /\ log' = [log EXCEPT ![e] = Append(@, Req("upload", c.cred))]
            /\ pc' = [pc EXCEPT ![e] = "upload"]
            /\ clientPool' = pool
            /\ UNCHANGED failed
       ELSE /\ failed' = [failed EXCEPT ![e] = @ \cup {"input"}]
            /\ pool2Throw(e, [r EXCEPT !.credentialUsed = c.cred], "input", "net", 0, c, pool)

\* performOcr is called: the Result is built and getGoogleClient runs up to
\* its first await: a pooled client is returned at once, else the
\* credential files are awaited
pool2PerformOcr(e) ==
  /\ variant = "pool2"
  /\ MayStart(e)
  /\ \E ok \in BOOLEAN :
       LET r0 == InitResult("0_start_js_function") IN
       /\ inputOk' = [inputOk EXCEPT ![e] = ok]
       /\ IF Len(clientPool) > 0
            THEN pool2GotClient(e, Head(clientPool), r0, poolShift(clientPool), ok)
            ELSE /\ pc' = [pc EXCEPT ![e] = "credfiles"]
                 /\ result' = [result EXCEPT ![e] = r0]
                 /\ UNCHANGED <<googleClient, log, failed, clientPool>>
  /\ UNCHANGED <<variant, googleDocId, exported, clientCache>>
  /\ UNCHANGED <<tokenVars, selected, batchVars, envVars>>

\* getCredentialFiles returns: no file throws; else a random identity is
\* selected and its cached client, if any, returned; on a miss the
\* authorization of a new client is awaited (googleClient[e] keeps the
\* selection until then)
pool2GetCredentialFiles(e) ==
  /\ variant = "pool2"
  /\ pc[e] = "credfiles"
  /\ \E out \in {"ok", "empty", "throw"} :
       IF out = "ok"
         THEN \E i \in Idents :
                IF clientCacheGet(i) # NoClient
                  THEN /\ clientCache' = clientCacheTouch(i)
                       /\ pool2GotClient(e, clientCacheGet(i), result[e],
                                         clientPool, inputOk[e])
                       /\ UNCHANGED selected
                  ELSE /\ selected' = [selected EXCEPT ![e] = i]
                       /\ pc' = [pc EXCEPT ![e] = "auth"]
                       /\ UNCHANGED <<failed, clientPool, clientCache, googleClient,
                                      result, log>>
         ELSE /\ failed' = [failed EXCEPT ![e] = @ \cup {"credentials"}]
              /\ pool2Throw(e, result[e], "credentials", "net", 0, NoClient, clientPool)
              /\ UNCHANGED <<googleClient, clientCache, selected>>
  /\ UNCHANGED <<variant, googleDocId, exported>>
  /\ UNCHANGED tokenVars
  /\ UNCHANGED <<inputOk, batchVars, envVars>>

\* the credential file is read (unless cached) and the client authorized:
\* the new client object is cached under its identity's key and returned,
\* or getGoogleClient throws and performOcr catches
pool2GetGoogleClient(e) ==
  /\ variant = "pool2"
  /\ pc[e] = "auth"
  /\ \E out \in {"ok", "fail"} :
       IF out = "ok"
         THEN LET c == Client(selected[e], e) IN
              /\ clientCache' = clientCacheSet(selected[e], c)
              /\ pool2GotClient(e, c, result[e], clientPool, inputOk[e])
         ELSE /\ failed' = [failed EXCEPT ![e] = @ \cup {"credentials"}]
              /\ pool2Throw(e, result[e], "credentials", "net", 0, NoClient, clientPool)
              /\ UNCHANGED <<googleClient, clientCache>>
  /\ UNCHANGED <<variant, googleDocId, exported, selected>>
  /\ UNCHANGED tokenVars
  /\ UNCHANGED <<inputOk, batchVars, envVars>>

\* the upload answers: the id is stored and the timing recorded before the
\* id is tested
pool2Upload(e) ==
  /\ variant = "pool2"
  /\ pc[e] = "upload"
  /\ \E out \in {"id", "no_id"} \cup FailKinds :
       LET r1 == Timed(result[e], "1_upload_and_convert_to_gdoc_ocr") IN
       IF out = "id"
         THEN /\ googleDocId' = [googleDocId EXCEPT ![e] = e]
              /\ result' = [result EXCEPT ![e] = Timed(r1, "after_gdoc_creation")]
              /\ log' = [log EXCEPT ![e] = Append(@, Req("export", googleClient[e].cred))]
              /\ pc' = [pc EXCEPT ![e] = "export"]
              /\ UNCHANGED <<failed, clientPool>>
         ELSE /\ failed' = [failed EXCEPT ![e] = @ \cup {"upload"}]
              /\ pool2Throw(e, IF out = "no_id" THEN r1 ELSE result[e], "upload", IF out = "no_id" THEN "net" ELSE out, 0, googleClient[e], clientPool)
              /\ UNCHANGED googleDocId
  /\ UNCHANGED <<variant, exported, googleClient, clientCache>>
  /\ UNCHANGED <<tokenVars, selected>>
  /\ UNCHANGED <<inputOk, batchVars, envVars>>

\* what the try block does with the export's answer
pool2Exported(r, text) ==
  Timed(Timed([r EXCEPT !.success = TRUE, !.text = text],
              "2_export_doc_as_text"), "after_export")

\* the export answers; either way the finally block runs
pool2Export(e) ==
  /\ variant = "pool2"
  /\ pc[e] = "export"
  /\ \E out \in {"ok"} \cup FailKinds :
       IF out = "ok"
         THEN \E text \in ExportedTexts :
                /\ exported' = [exported EXCEPT ![e] = text]
                /\ pool2Finally(e, pool2Exported(result[e], text), googleDocId[e],
                                googleClient[e], clientPool)
                /\ UNCHANGED failed
         ELSE /\ failed' = [failed EXCEPT ![e] = @ \cup {"export"}]
              /\ pool2Throw(e, result[e], "export", out, googleDocId[e], googleClient[e], clientPool)
              /\ UNCHANGED exported
  /\ UNCHANGED <<variant, googleDocId, googleClient, clientCache>>
  /\ UNCHANGED <<tokenVars, selected>>
  /\ UNCHANGED <<inputOk, batchVars, envVars>>

\* the delete answers
pool2Delete(e) ==
  /\ variant = "pool2"
  /\ pc[e] = "delete"
  /\ \E out \in {"ok"} \cup FailKinds :
       IF out = "ok"
         THEN /\ result' = [result EXCEPT ![e] =
                   Timed(Timed(@, "3_delete_temp_gdoc"), "total_duration_js_script")]
              /\ pc' = [pc EXCEPT ![e] = "done"]
              /\ UNCHANGED failed
         ELSE /\ result' = [result EXCEPT ![e] =
                   IF "delete" \in pool2Guarded
                     THEN Timed(Timed(pool2CleanupError(@, "delete"), "3_delete_temp_gdoc"), "total_duration_js_script")
                     ELSE @]
              /\ pc' = [pc EXCEPT ![e] =
                   IF "delete" \in pool2Guarded THEN "done" ELSE "raised"]
              /\ failed' = [failed EXCEPT ![e] = @ \cup {"delete"}]
  /\ UNCHANGED <<variant, googleDocId, log, exported>>
  /\ UNCHANGED <<tokenVars, poolVars>>
  /\ UNCHANGED <<inputOk, batchVars, envVars>>

\* ========================== getCredentialFiles and getRandomCredentials
\* getRandomCredentials from the return of getCredentialFiles on: the length
\* check, the random choice, and the loading of the chosen entry (from
\* credentialContentCache, or by readFile and JSON.parse, which throws on a
\* file that is not JSON)
gotCredentialFiles(e, c, fl) ==
  IF fl.kind = "error"
    THEN credCall' = [credCall EXCEPT ![e] =
           [c EXCEPT !.pc = "done", !.files = fl,
              !.picked = PickError(0, "Failed to read credential files")]]
    ELSE IF Len(fl.files) = 0
      THEN credCall' = [credCall EXCEPT ![e] =
             [c EXCEPT !.pc = "done", !.files = fl,
                !.picked = PickError(0, "No credential files available")]]
      ELSE \E j \in 1..Len(fl.files), parses \in BOOLEAN :
             /\ parses \/ (credSource.mode = "dir"
                           /\ credSource.entries[fl.files[j]] = "malformed")
             /\ credCall' = [credCall EXCEPT ![e] =
                  [c EXCEPT !.pc = "done", !.files = fl,
                     !.picked = IF parses THEN Picked(fl.files[j])
                                ELSE PickError(fl.files[j], "JSON.parse")]]

\* a call of getRandomCredentials, up to the first await of
\* getCredentialFiles that is answered by the file system: mkdir for the
\* bundle, readdir for the directory when no list is cached
getRandomCredentials(e) ==
  /\ variant = "direct"
  /\ Alive
  /\ credCall[e].pc = "idle"
  /\ IF credSource.mode = "env"
       THEN IF credSource.readable
              THEN credCall' = [credCall EXCEPT ![e].pc = "mkdir",
                                               ![e].scanned = TRUE]
              ELSE gotCredentialFiles(e, credCall[e], FileList(0))
       ELSE IF cachedCredentialFiles.kind = "list"
              THEN gotCredentialFiles(e, credCall[e], cachedCredentialFiles)
              ELSE credCall' = [credCall EXCEPT ![e].pc = "readdir",
                                               ![e].scanned = TRUE]
  /\ UNCHANGED <<credSource, cachedCredentialFiles, silent, warm,
                 nameVars,
                 uploadVars, tempVars>>
  /\ UNCHANGED <<variant, pc, inputOk, result, googleDocId, log, failed,
                 exported>>
  /\ UNCHANGED <<tokenVars, poolVars, batchVars>>

\* the bundle: mkdir has been answered (its error is ignored);
\* registerTempCleanup is called and the first writeFile issued; a bundle
\* without elements is returned as the empty list
envMkdir(e) ==
  /\ variant = "direct"
  /\ Alive
  /\ credCall[e].pc = "mkdir"
  /\ cleanupRegistered' = TRUE
  /\ IF Len(credSource.entries) = 0
       THEN gotCredentialFiles(e, credCall[e], FileList(0))
       ELSE credCall' = [credCall EXCEPT ![e].pc = "write"]
  /\ UNCHANGED <<createdTempFiles, tempDisk, unremovable, cleanupRuns>>
  /\ UNCHANGED <<credSource, cachedCredentialFiles, silent, warm,
                 nameVars,
                 uploadVars>>
  /\ UNCHANGED <<variant, pc, inputOk, result, googleDocId, log, failed,
                 exported>>
  /\ UNCHANGED <<tokenVars, poolVars, batchVars>>

\* the bundle: the writeFile of the next element has been answered: the
\* file is on disk and tracked, and the next writeFile is issued or the
\* list returned; a writeFile that fails is caught, and the catch returns []
envWriteFile(e) ==
  /\ variant = "direct"
  /\ Alive
  /\ credCall[e].pc = "write"
  /\ \E written \in BOOLEAN :
       LET f == credCall[e].w + 1
           c == [credCall[e] EXCEPT !.w = f]
       IN  IF written
             THEN /\ tempDisk' = tempDisk \cup {f}
                  /\ createdTempFiles' = createdTempFiles \cup {f}
                  /\ IF f = Len(credSource.entries)
                       THEN gotCredentialFiles(e, c, FileList(f))
                       ELSE credCall' = [credCall EXCEPT ![e] = c]
             ELSE /\ UNCHANGED <<tempDisk, createdTempFiles>>
                  /\ gotCredentialFiles(e, credCall[e], FileList(0))
  /\ UNCHANGED <<unremovable, cleanupRegistered, cleanupRuns>>
  /\ UNCHANGED <<credSource, cachedCredentialFiles, silent, warm,
                 nameVars,
                 uploadVars>>
  /\ UNCHANGED <<variant, pc, inputOk, result, googleDocId, log, failed,
                 exported>>
  /\ UNCHANGED <<tokenVars, poolVars, batchVars>>

\* the directory: readdir has been answered; the filtered list is assigned
\* to cachedCredentialFiles before its length is looked at
dirReaddir(e) ==
  /\ variant = "direct"
  /\ credCall[e].pc = "readdir"
  /\ IF credSource.readable
       THEN /\ cachedCredentialFiles' = FileList(Len(credSource.entries))
            /\ gotCredentialFiles(e, credCall[e],
                 IF Len(credSource.entries) = 0 THEN FilesError
                 ELSE FileList(Len(credSource.entries)))
       ELSE /\ UNCHANGED cachedCredentialFiles
            /\ gotCredentialFiles(e, credCall[e], FilesError)
  /\ UNCHANGED <<credSource, silent, warm, nameVars, uploadVars, tempVars>>
  /\ UNCHANGED <<variant, pc, inputOk, result, googleDocId, log, failed,
                 exported>>
  /\ UNCHANGED <<tokenVars, poolVars, batchVars>>

\* ====================================================== cleanupTempFiles
\* the awaits of cleanupTempFiles that are inside a try block
cleanupGuarded == {"unlink", "rmdir"}

\* fault: a file that was removed stays tracked
cleanupUnlinked_Keep(tracked, f) == tracked

\* createdTempFiles.delete(file), after the unlink
cleanupUnlinked(tracked, f) == tracked \ {f}

\* an unlink is answered: the file is gone and no longer tracked, or the
\* error (no such file, or a file that cannot be removed) is caught; the
\* next unlink, or rmdir, is issued
cleanupUnlink(run) ==
  /\ Alive
  /\ cleanupRuns[run].pc = "unlink"
  /\ LET f == Head(cleanupRuns[run].todo)
         rest == Tail(cleanupRuns[run].todo)
         removed == f \in tempDisk /\ f \notin unremovable
     IN  /\ tempDisk' = IF removed THEN tempDisk \ {f} ELSE tempDisk
         /\ createdTempFiles' =
              IF removed THEN cleanupUnlinked(createdTempFiles, f)
              ELSE createdTempFiles
         /\ cleanupRuns' = [cleanupRuns EXCEPT ![run] =
              IF ~removed /\ "unlink" \notin cleanupGuarded
                THEN [pc |-> "raised", todo |-> rest]
              ELSE IF rest = <<>> THEN [pc |-> "rmdir", todo |-> rest]
              ELSE [pc |-> "unlink", todo |-> rest]]
  /\ UNCHANGED <<unremovable, cleanupRegistered>>
  /\ UNCHANGED <<variant, pc, inputOk, result, googleDocId, log, failed,
                 exported>>
  /\ UNCHANGED <<tokenVars, poolVars, batchVars>>
  /\ UNCHANGED <<silent, warm, credVars, nameVars, uploadVars>>

\* rmdir is answered: the directory is removed, or the error (not empty, or
\* not there) is caught; cleanupTempFiles returns
cleanupRmdir(run) ==
  /\ Alive
  /\ cleanupRuns[run].pc = "rmdir"
  /\ \E removed \in BOOLEAN :
       cleanupRuns' = [cleanupRuns EXCEPT ![run].pc =
         IF ~removed /\ "rmdir" \notin cleanupGuarded THEN "raised"
         ELSE "done"]
  /\ UNCHANGED <<createdTempFiles, tempDisk, unremovable, cleanupRegistered>>
  /\ UNCHANGED <<variant, pc, inputOk, result, googleDocId, log, failed,
                 exported>>
  /\ UNCHANGED <<tokenVars, poolVars, batchVars>>
  /\ UNCHANGED <<silent, warm, credVars, nameVars, uploadVars>>

\* cleanupTempFiles is called for the n-th time
cleanupCall(n) ==
  /\ cleanupRuns[<<"call", n>>] = NoRun
  /\ IF n = 1 THEN TRUE ELSE cleanupRuns[<<"call", n - 1>>] # NoRun
  /\ cleanupRuns' = [cleanupRuns EXCEPT ![<<"call", n>>] =
       cleanupStarted(createdTempFiles)]
  /\ UNCHANGED <<createdTempFiles, tempDisk, unremovable, cleanupRegistered>>
  /\ UNCHANGED <<variant, pc, inputOk, result, googleDocId, log, failed,
                 exported>>
  /\ UNCHANGED <<tokenVars, poolVars, batchVars>>
  /\ UNCHANGED <<silent, warm, credVars, nameVars, uploadVars>>

\* ---------------------------------------------------- registerTempCleanup
\* the exit event: the exit listener calls cleanupTempFiles, which runs to
\* its first await; the process then ends, so nothing after that await is
\* executed, and the unlink it has issued may or may not reach the disk
exitListener ==
  /\ cleanupRuns' = [cleanupRuns EXCEPT ![<<"exit", 0>>] =
       cleanupStarted(createdTempFiles)]
  /\ \E lands \in BOOLEAN :
       tempDisk' =
         IF lands /\ createdTempFiles # {}
           THEN LET f == Head(SetToSeq(createdTempFiles))
                IN  IF f \in unremovable THEN tempDisk ELSE tempDisk \ {f}
           ELSE tempDisk

\* SIGINT (1) or SIGTERM (2) arrives: the listener calls cleanupTempFiles
\* and awaits it
signalReceived(sig) ==
  /\ Alive
  /\ cleanupRegistered
  /\ cleanupRuns[<<"signal", sig>>] = NoRun
  /\ cleanupRuns' = [cleanupRuns EXCEPT ![<<"signal", sig>>] =
       cleanupStarted(createdTempFiles)]
  /\ UNCHANGED <<createdTempFiles, tempDisk, unremovable, cleanupRegistered>>
  /\ UNCHANGED <<variant, pc, inputOk, result, googleDocId, log, failed,
                 exported>>
  /\ UNCHANGED <<tokenVars, poolVars, batchVars>>
  /\ UNCHANGED <<silent, warm, credVars, nameVars, uploadVars>>

\* the cleanupTempFiles of a signal listener has returned: the listener
\* calls process.exit(), which emits the exit event
signalExit(sig) ==
  /\ Alive
  /\ cleanupRuns[<<"signal", sig>>].pc = "done"
  /\ exitListener
  /\ UNCHANGED <<createdTempFiles, unremovable, cleanupRegistered>>
  /\ UNCHANGED <<variant, pc, inputOk, result, googleDocId, log, failed,
                 exported>>
  /\ UNCHANGED <<tokenVars, poolVars, batchVars>>
  /\ UNCHANGED <<silent, warm, credVars, nameVars, uploadVars>>

\* the process exits without a signal (process.exit() elsewhere, or an
\* uncaught exception), the exit listener being registered
processExit ==
  /\ Alive
  /\ cleanupRegistered
  /\ exitListener
  /\ UNCHANGED <<createdTempFiles, unremovable, cleanupRegistered>>
  /\ UNCHANGED <<variant, pc, inputOk, result, googleDocId, log, failed,
                 exported>>
  /\ UNCHANGED <<tokenVars, poolVars, batchVars>>
  /\ UNCHANGED <<silent, warm, credVars, nameVars, uploadVars>>

\* ====================================================== preWarmAuthTokens
\* the steps of preWarmAuthTokens that run inside a try block
warmGuarded == {"files", "read", "exchange", "cleanup"}

\* the token the warm-up of identity i caches (no execution asked for it)
WarmToken(i) == Bearer(i, 0)

\* a warm-up task has ended (w: the call with that task updated): when it
\* was the last one Promise.all resolves, and preWarmAuthTokens calls
\* cleanupTempFiles and awaits it if files are tracked, or returns
warmJoined(w, runs) ==
  IF \A k \in TempFiles : w.task[k] \in {"none", "warmed", "failed"}
    THEN IF createdTempFiles # {}
           THEN /\ warm' = [w EXCEPT !.pc = "cleanup"]
                /\ cleanupRuns' = [runs EXCEPT ![<<"prewarm", 0>>] =
                     cleanupStarted(createdTempFiles)]
           ELSE /\ warm' = [w EXCEPT !.pc = "done"]
                /\ cleanupRuns' = runs
    ELSE /\ warm' = w
         /\ cleanupRuns' = runs

\* preWarmAuthTokens is called by the listen callback and awaits
\* getCredentialFiles (call 1 of the credential source, of which the
\* warm-up uses the list only)
warmGetCredentialFiles ==
  /\ warm.pc = "idle"
  /\ getRandomCredentials(1)

\* getCredentialFiles has returned: a task is started for each file and
\* runs to its readFile; an exception is caught by the outer catch
warmTasks ==
  /\ variant = "direct"
  /\ Alive
  /\ warm.pc = "idle"
  /\ credCall[1].pc = "done"
  /\ \E accepts \in SUBSET Idents :
       LET fl == credCall[1].files IN
       IF fl.kind = "error"
         THEN /\ warm' = [warm EXCEPT !.accepts = accepts,
                     !.pc = IF "files" \in warmGuarded THEN "done"
                            ELSE "raised"]
              /\ UNCHANGED cleanupRuns
         ELSE warmJoined([warm EXCEPT !.accepts = accepts, !.pc = "tasks",
                 !.task = [k \in TempFiles |->
                    IF k <= Len(fl.files) THEN "read" ELSE "none"]],
                cleanupRuns)
  /\ UNCHANGED <<createdTempFiles, tempDisk, unremovable, cleanupRegistered>>
  /\ UNCHANGED <<variant, pc, inputOk, result, googleDocId, log, failed,
                 exported>>
  /\ UNCHANGED <<tokenVars, poolVars, batchVars>>
  /\ UNCHANGED <<silent, credVars, nameVars, uploadVars>>

\* the readFile of task k is answered: a file that is gone, or content that
\* is no credentials object, ends the task in its catch; else
\* getAccessToken runs to its first await, the token exchange, or returns
\* the cached token
warmReadFile(k) ==
  /\ variant = "direct"
  /\ Alive
  /\ warm.pc = "tasks"
  /\ warm.task[k] = "read"
  /\ LET there == credSource.mode = "dir" \/ k \in tempDisk
         good == credSource.entries[k] = "valid"
     IN  IF there /\ good
           THEN IF Truthy(tokenCacheGet(k))
                  THEN /\ warmJoined([warm EXCEPT !.task[k] = "warmed"],
                                     cleanupRuns)
                       /\ UNCHANGED exchanges
                  ELSE /\ warm' = [warm EXCEPT !.task[k] = "exchange"]
                       /\ exchanges' = [exchanges EXCEPT ![k] = @ + 1]
                       /\ UNCHANGED cleanupRuns
           ELSE /\ warmJoined([warm EXCEPT !.task[k] = "failed"], cleanupRuns)
                /\ UNCHANGED exchanges
  /\ UNCHANGED <<createdTempFiles, tempDisk, unremovable, cleanupRegistered>>
  /\ UNCHANGED <<variant, pc, inputOk, result, googleDocId, log, failed,
                 exported, accessToken, tokenCache>>
  /\ UNCHANGED <<poolVars, batchVars>>
  /\ UNCHANGED <<silent, credVars, nameVars, uploadVars>>

\* the token exchange of task k is answered: the token is cached and, when
\* files are tracked, cleanupTempFiles called without being awaited; a
\* refusal is caught by the task
warmExchange(k) ==
  /\ variant = "direct"
  /\ Alive
  /\ warm.pc = "tasks"
  /\ warm.task[k] = "exchange"
  /\ Answers("token")
  /\ IF k \in warm.accepts
       THEN /\ tokenCache' = tokenCacheSet(k, WarmToken(k))
            /\ warmJoined([warm EXCEPT !.task[k] = "warmed"],
                 IF cleanupTriggered(createdTempFiles)
                   THEN [cleanupRuns EXCEPT ![<<"warm", k>>] =
                           cleanupStarted(createdTempFiles)]
                   ELSE cleanupRuns)
       ELSE /\ warmJoined([warm EXCEPT !.task[k] = "failed"], cleanupRuns)
            /\ UNCHANGED tokenCache
  /\ UNCHANGED <<createdTempFiles, tempDisk, unremovable, cleanupRegistered>>
  /\ UNCHANGED <<variant, pc, inputOk, result, googleDocId, log, failed,
                 exported, accessToken, exchanges>>
  /\ UNCHANGED <<poolVars, batchVars>>
  /\ UNCHANGED <<silent, credVars, nameVars, uploadVars>>

\* the cleanupTempFiles preWarmAuthTokens awaits has returned
warmCleaned ==
  /\ variant = "direct"
  /\ Alive
  /\ warm.pc = "cleanup"
  /\ cleanupRuns[<<"prewarm", 0>>].pc \in {"done", "raised"}
  /\ warm' = [warm EXCEPT !.pc =
       IF cleanupRuns[<<"prewarm", 0>>].pc = "done"
            \/ "cleanup" \in warmGuarded
         THEN "done" ELSE "raised"]
  /\ UNCHANGED tempVars
  /\ UNCHANGED <<variant, pc, inputOk, result, googleDocId, log, failed,
                 exported>>
  /\ UNCHANGED <<tokenVars, poolVars, batchVars>>
  /\ UNCHANGED <<silent, credVars, nameVars, uploadVars>>

\* ================================================ performOcr: file names
\* performOcr builds the Result object
nameResult ==
  /\ variant = "direct"
  /\ fileNaming.pc = "idle"
  /\ fileNaming' = [fileNaming EXCEPT !.pc = "result",
                      !.fileName = fileNaming.originalFileName]
  /\ UNCHANGED <<silent, warm, credVars, uploadVars, tempVars>>
  /\ UNCHANGED <<variant, pc, inputOk, result, googleDocId, log, failed,
                 exported>>
  /\ UNCHANGED <<tokenVars, poolVars, batchVars>>

\* performOcr builds the metadata of the upload
nameUpload ==
  /\ variant = "direct"
  /\ fileNaming.pc = "result"
  /\ \E now \in Timestamps :
       fileNaming' = [fileNaming EXCEPT !.pc = "upload",
           !.safeFileName = safeFileName(fileNaming.originalFileName, now)]
  /\ UNCHANGED <<silent, warm, credVars, uploadVars, tempVars>>
  /\ UNCHANGED <<variant, pc, inputOk, result, googleDocId, log, failed,
                 exported>>
  /\ UNCHANGED <<tokenVars, poolVars, batchVars>>

\* ================================================= POST /api/ocr/upload
\* fault: every file of the request is processed
UploadedFiles_All(n) == [k \in 1..n |-> k]

\* const file = req.files[0]: only the first file is processed
UploadedFiles(n) == <<1>>

\* the responses of the handler
NoFilesResponse ==
  [status |-> 400, envelope |-> FALSE,
   results |-> <<[success |-> FALSE,
                  error |-> <<Err("No files uploaded.", "validation")>>]>>]

UploadResponse(r) ==
  [status |-> 200, envelope |-> FALSE,
   results |-> <<Timed(r, "total_duration")>>]

UploadErrorResponse ==
  [status |-> 500, envelope |-> FALSE,
   results |-> <<[success |-> FALSE,
                  error |-> <<Err("Server error", "upload-processing")>>]>>]

\* the r-th request arrives with the files multer accepted; the handler
\* runs to its await of performOcr, which runs as execution r with the
\* buffer and the name multer made (a Buffer and a string)
postUpload(r) ==
  /\ variant = "direct"
  /\ uploads[r] = NoUpload
  /\ pc[r] = "idle"
  /\ IF r = 1 THEN TRUE ELSE uploads[r - 1] # NoUpload
  /\ \E n \in 0..MaxFiles :
       IF n = 0
         THEN /\ uploads' = [uploads EXCEPT ![r] =
                   [files |-> 0, called |-> <<>>,
                    response |-> NoFilesResponse]]
              /\ UNCHANGED <<pc, inputOk, result>>
         ELSE /\ uploads' = [uploads EXCEPT ![r] =
                   [files |-> n, called |-> UploadedFiles(n),
                    response |-> NoResponse]]
              /\ pc' = [pc EXCEPT ![r] = "creds"]
              /\ inputOk' = [inputOk EXCEPT ![r] = TRUE]
              /\ result' = [result EXCEPT ![r] =
                   InitResult("0_start_direct_api")]
  /\ UNCHANGED <<variant, googleDocId, log, failed, exported>>
  /\ UNCHANGED <<tokenVars, poolVars, batchVars>>
  /\ UNCHANGED <<silent, warm, credVars, nameVars, tempVars>>

\* performOcr has returned (or thrown): the handler answers
uploadRespond(r) ==
  /\ uploads[r].called # <<>>
  /\ uploads[r].response = NoResponse
  /\ pc[r] \in {"done", "raised"}
  /\ uploads' = [uploads EXCEPT ![r].response =
       IF pc[r] = "done" THEN UploadResponse(result[r])
       ELSE UploadErrorResponse]
  /\ UNCHANGED <<variant, pc, inputOk, result, googleDocId, log, failed,
                 exported>>
  /\ UNCHANGED <<tokenVars, poolVars, batchVars>>
  /\ UNCHANGED <<silent, warm, credVars, nameVars, tempVars>>

\* ================================================ POST /api/ocr/base64
\* the elements a JSON body can hold, by what the handler's callback does
\* with them:
\*   "valid"     an object with a string imageBase64 that decodes to at most
\*               5 MB and a string originalFileName
\*   "missing"   an object whose imageBase64 is absent
\*   "noname"    an object whose originalFileName is absent
\*               or falsy
\*   "baduri"    imageBase64 starts with "data:" and is no image data URI
\*   "oversize"  imageBase64 decodes to more than 5 MB: the JSON text of
\*               the body is then longer than the "5mb" express.json reads
\*   "scalar"    a number, string, boolean or array: reading a property of
\*               it gives undefined
\*   "null"      JSON null: reading a property of it throws a TypeError
\*   "wrongtype" imageBase64 is truthy and no string: it has no startsWith
\*   "badname"   originalFileName is truthy and no string, imageBase64 is
\*               a good string
ItemKinds ==
  {"valid", "missing", "noname", "baduri", "oversize", "scalar", "null",
   "wrongtype",
   "badname"}

\* express.json() accepts an array or an object as the body
ObjectKinds == ItemKinds \ {"scalar", "null"}

Bodies ==
  {[isArray |-> TRUE, items |-> s] :
     s \in UNION {[1..n -> ItemKinds] : n \in 0..NumExec}}
  \cup {[isArray |-> FALSE, items |-> <<k>>] : k \in ObjectKinds}

\* the callback throws before it returns anything: its promise rejects
itemThrows(kind) == kind \in {"null", "wrongtype"}

\* the callback passes its checks and calls performOcr
itemDispatched(kind) == kind \in {"valid", "badname"}

\* the Result the callback returns for an element that fails a check
ValidationResult(kind) ==
  [success |-> FALSE,
   error |-> <<Err(CASE kind \in {"missing", "noname", "scalar"} ->
                          "Missing required fields"
                     [] kind = "baduri" -> "Invalid base64 image format"
                     [] kind = "oversize" -> "Decoded image exceeds maximum size",
                   "validation")>>,
   timing |-> {"item_duration"}]

\* the Result the callback returns when performOcr rejects
OcrErrorResult ==
  [success |-> FALSE, error |-> <<Err("OCR processing error", "raised")>>,
   timing |-> {"item_duration"}]

\* file names: the originalFileName of the k-th element of a body is a name
\* of its own, the values a handler writes itself are "N/A" and
\* "batch-processing", and an absent property reads as undefined
FileNameOf(k) == [name |-> "file", of |-> k]
NoFileName == [name |-> "undefined", of |-> 0]
NotAvailable == [name |-> "N/A", of |-> 0]
BatchProcessing == [name |-> "batch-processing", of |-> 0]

\* imageItem.originalFileName
originalFileName(items, k) ==
  IF items[k] \in {"noname", "scalar"} THEN NoFileName ELSE FileNameOf(k)

\* the fileName of the Result of element k: performOcr and the catch of its
\* call copy originalFileName, the checks before use
\* originalFileName || "N/A" or originalFileName
itemFileName(items, k) ==
  IF originalFileName(items, k) = NoFileName THEN NotAvailable
  ELSE originalFileName(items, k)

\* what the promise of element k resolves to
itemResult(items, k) ==
  IF itemDispatched(items[k])
    THEN IF pc[k] = "raised" THEN OcrErrorResult
         ELSE Timed(result[k], "item_duration")
    ELSE ValidationResult(items[k])

\* fault: an empty body answered with no Result at all
EmptyBatchResponse_NoResult ==
  [status |-> 400, envelope |-> FALSE, results |-> <<>>]

\* the three responses of the handler
EmptyBatchResponse ==
  [status |-> 400, envelope |-> FALSE, fileNames |-> <<NotAvailable>>,
   results |-> <<[success |-> FALSE,
                  error |-> <<Err("No image data provided", "validation")>>]>>]

ServerErrorResponse ==
  [status |-> 500, envelope |-> FALSE, fileNames |-> <<BatchProcessing>>,
   results |-> <<[success |-> FALSE,
                  error |-> <<Err("Server error", "batch-processing")>>]>>]

\* (fileNames[k] is the fileName of results[k], processedCount the
\* results.length of meta)
BatchResponse(items) ==
  [status |-> 200, envelope |-> TRUE,
   fileNames |-> [k \in 1..Len(items) |-> itemFileName(items, k)],
   processedCount |-> Len(items),
   results |-> [k \in 1..Len(items) |-> itemResult(items, k)]]

\* express.json refuses a body above its limit; the error handler of the
\* application answers for it
PayloadTooLarge(items) == \E k \in 1..Len(items) : items[k] = "oversize"

ErrorHandlerResponse ==
  [status |-> 500, envelope |-> FALSE, fileNames |-> <<NotAvailable>>,
   results |-> <<[success |-> FALSE,
                  error |-> <<Err("Server error", "request entity too large")>>]>>]

\* the elements whose performOcr is still running
Running(items) ==
  {k \in 1..Len(items) :
     itemDispatched(items[k]) /\ pc[k] \notin {"done", "raised"}}

\* a request arrives.  A body express.json refuses does not reach the
\* handler.  Otherwise the handler runs to its await of Promise.all: every
\* callback has run to its first await (element k is execution k), and
\* what Promise.all settles to without waiting is answered at once: a
\* rejected promise rejects it, whatever the other promises do
postBase64 ==
  /\ variant = "direct"
  /\ request = NoRequest
  /\ \A e \in Execs : pc[e] = "idle"
  /\ \E body \in Bodies :
       LET items == body.items
           called == IF PayloadTooLarge(items) THEN {}
                     ELSE {k \in 1..Len(items) : itemDispatched(items[k])}
       IN
       /\ request' = body
       /\ pc' = [e \in Execs |-> IF e \in called THEN "creds" ELSE pc[e]]
       /\ inputOk' = [e \in Execs |->
            IF e \in called THEN items[e] = "valid" ELSE inputOk[e]]
       /\ result' = [e \in Execs |->
            IF e \in called THEN InitResult("0_start_direct_api")
            ELSE result[e]]
       /\ response' =
            IF PayloadTooLarge(items) THEN ErrorHandlerResponse
            ELSE IF Len(items) = 0 THEN EmptyBatchResponse
            ELSE IF \E k \in 1..Len(items) : itemThrows(items[k])
              THEN ServerErrorResponse
            ELSE IF called = {} THEN BatchResponse(items)
            ELSE NoResponse
  /\ UNCHANGED <<variant, googleDocId, log, failed, exported>>
  /\ UNCHANGED <<tokenVars, poolVars, envVars>>

\* Promise.all resolves when the last performOcr has returned: the handler
\* sends the results in the order of the elements
batchRespond ==
  /\ request # NoRequest
  /\ response = NoResponse
  /\ Running(request.items) = {}
  /\ response' = BatchResponse(request.items)
  /\ UNCHANGED <<variant, pc, inputOk, result, googleDocId, log, failed,
                 exported, request>>
  /\ UNCHANGED <<tokenVars, poolVars, envVars>>

\* ------------------------------------------------------------------ time
\* 15 minutes pass: every cache entry grows older
Tick ==
  /\ tokenCache' = [i \in Idents |->
       IF tokenCache[i].present
         THEN [tokenCache[i] EXCEPT !.age = Min(@ + 1, TOKEN_TTL + 1)]
         ELSE tokenCache[i]]
  /\ clientCache' = [k \in CacheKeys |->
       IF clientCache[k].present
         THEN [clientCache[k] EXCEPT !.age = Min(@ + 1, CLIENT_TTL + 1)]
         ELSE clientCache[k]]
  /\ UNCHANGED <<variant, pc, inputOk, result, googleDocId, accessToken, log,
                 failed, exported, exchanges, googleClient, clientPool,
                 selected>>
  /\ UNCHANGED <<batchVars, envVars>>

\* ------------------------------------------------------- specifications
DirectNext ==
  \/ \E e \in Execs : directPerformOcr(e)
  \/ \E e \in Execs : directGetRandomCredentials(e)
  \/ \E e \in Execs : directGetAccessToken(e)
  \/ \E e \in Execs : directUpload(e)
  \/ \E e \in Execs : directExport(e)
  \/ \E e \in Execs : directDelete(e)

GapiNext ==
  \/ \E e \in Execs : gapiPerformOcr(e)
  \/ \E e \in Execs : gapiGetGoogleClient(e)
  \/ \E e \in Execs : gapiUpload(e)
  \/ \E e \in Execs : gapiExport(e)
  \/ \E e \in Execs : gapiDeleteClient(e)
  \/ \E e \in Execs : gapiDelete(e)

Pool1Next ==
  \/ \E e \in Execs : pool1PerformOcr(e)
  \/ \E e \in Execs : pool1GetGoogleClient(e)
  \/ \E e \in Execs : pool1Upload(e)
  \/ \E e \in Execs : pool1Export(e)
  \/ \E e \in Execs : pool1Delete(e)

Pool2Next ==
  \/ \E e \in Execs : pool2PerformOcr(e)
  \/ \E e \in Execs : pool2GetCredentialFiles(e)
  \/ \E e \in Execs : pool2GetGoogleClient(e)
  \/ \E e \in Execs : pool2Upload(e)
  \/ \E e \in Execs : pool2Export(e)
  \/ \E e \in Execs : pool2Delete(e)

\* the direct-API service (the one server.js loads)
Spec == Init /\ [][DirectNext \/ Tick]_vars

InitGapi == variant = "gapi" /\ InitCommon /\ InitEnv
\* (this variant caches nothing, so the passing of time changes nothing)
SpecGapi == InitGapi /\ [][GapiNext]_vars

InitPool1 == variant = "pool1" /\ InitCommon /\ InitEnv
SpecPool1 == InitPool1 /\ [][Pool1Next \/ Tick]_vars

InitPool2 == variant = "pool2" /\ InitCommon /\ InitEnv
SpecPool2 == InitPool2 /\ [][Pool2Next \/ Tick]_vars

\* the server: one POST /api/ocr/base64, whose elements the direct-API
\* service processes
BatchNext ==
  \/ postBase64
  \/ batchRespond
  \/ \E e \in Execs : directGetRandomCredentials(e)
  \/ \E e \in Execs : directGetAccessToken(e)
  \/ \E e \in Execs : directUpload(e)
  \/ \E e \in Execs : directExport(e)
  \/ \E e \in Execs : directDelete(e)

SpecBatch == Init /\ [][BatchNext \/ Tick]_vars

\* the server: NumExec requests POST /api/ocr/upload, whose first file the
\* direct-API service processes
UploadNext ==
  \/ \E r \in Execs : postUpload(r)
  \/ \E r \in Execs : uploadRespond(r)
  \/ \E e \in Execs : directGetRandomCredentials(e)
  \/ \E e \in Execs : directGetAccessToken(e)
  \/ \E e \in Execs : directUpload(e)
  \/ \E e \in Execs : directExport(e)
  \/ \E e \in Execs : directDelete(e)

SpecUpload == Init /\ [][UploadNext \/ Tick]_vars

\* the direct-API service with endpoints that may stop answering
SilentNext ==
  \/ DirectNext
  \/ \E op \in Endpoints : remoteGoesSilent(op)

SpecSilent == Init /\ [][SilentNext \/ Tick]_vars

\* every variant of the service
\* the credential source of the direct-API service: every source, and
\* NumExec callers of getRandomCredentials
InitCreds ==
  /\ variant = "direct"
  /\ InitCommon
  /\ credSource \in Sources
  /\ fileNaming = NoNaming(<<>>)
  /\ NoTempFiles

CredsNext ==
  \E e \in Execs :
    \/ getRandomCredentials(e)
    \/ envMkdir(e)
    \/ envWriteFile(e)
    \/ dirReaddir(e)

SpecCreds == InitCreds /\ [][CredsNext]_vars

\* the file names of performOcr: every original file name of at most
\* MaxNameLen characters
InitNames ==
  /\ variant = "direct"
  /\ InitCommon
  /\ credSource = NoSource
  /\ fileNaming \in {NoNaming(name) : name \in FileNames}
  /\ NoTempFiles

NamesNext == nameResult \/ nameUpload

SpecNames == InitNames /\ [][NamesNext]_vars

\* cleanupTempFiles called up to NumExec times, one after the other or at
\* the same time, on any tracked set and any disk
InitCleanup ==
  /\ variant = "direct"
  /\ InitCommon
  /\ credSource = NoSource
  /\ fileNaming = NoNaming(<<>>)
  /\ createdTempFiles \in SUBSET TempFiles
  /\ tempDisk \in SUBSET TempFiles
  /\ unremovable \in SUBSET TempFiles

CleanupNext ==
  \/ \E n \in 1..NumExec : cleanupCall(n)
  \/ \E run \in Runs : cleanupUnlink(run)
  \/ \E run \in Runs : cleanupRmdir(run)

SpecCleanup == InitCleanup /\ [][CleanupNext]_vars

\* the direct-API service with GOOGLE_CREDENTIALS set: performOcr awaits
\* the getRandomCredentials call of its execution, and the cleanups the
\* token exchanges start run beside the executions
directAwaitCredentials(e) ==
  /\ pc[e] = "creds"
  /\ getRandomCredentials(e)

InitBundle ==
  /\ variant = "direct"
  /\ InitCommon
  /\ credSource \in {src \in Sources : src.mode = "env"}
  /\ fileNaming = NoNaming(<<>>)
  /\ createdTempFiles = {}
  /\ tempDisk = {}
  /\ unremovable \in SUBSET TempFiles

BundleNext ==
  \/ DirectNext
  \/ \E e \in Execs : directAwaitCredentials(e)
  \/ \E e \in Execs : envMkdir(e)
  \/ \E e \in Execs : envWriteFile(e)
  \/ \E run \in Runs : cleanupUnlink(run)
  \/ \E run \in Runs : cleanupRmdir(run)

\* (within the life of a cached token: no entry of the token cache expires)
SpecBundle == InitBundle /\ [][BundleNext]_vars

\* the life of the process with GOOGLE_CREDENTIALS set: calls of
\* getRandomCredentials, signals, and the exit
ShutdownNext ==
  \/ \E e \in Execs : getRandomCredentials(e)
  \/ \E e \in Execs : envMkdir(e)
  \/ \E e \in Execs : envWriteFile(e)
  \/ \E run \in Runs : cleanupUnlink(run)
  \/ \E run \in Runs : cleanupRmdir(run)
  \/ \E sig \in Signals : signalReceived(sig)
  \/ \E sig \in Signals : signalExit(sig)
  \/ processExit

SpecShutdown == InitBundle /\ [][ShutdownNext]_vars

\* the start of the server: preWarmAuthTokens, on any credential source
InitWarm ==
  /\ variant = "direct"
  /\ InitCommon
  /\ credSource \in Sources
  /\ fileNaming = NoNaming(<<>>)
  /\ createdTempFiles = {}
  /\ tempDisk = {}
  /\ unremovable \in SUBSET TempFiles

WarmNext ==
  \/ warmGetCredentialFiles
  \/ \E e \in Execs : envMkdir(e)
  \/ \E e \in Execs : envWriteFile(e)
  \/ \E e \in Execs : dirReaddir(e)
  \/ warmTasks
  \/ \E k \in TempFiles : warmReadFile(k)
  \/ \E k \in TempFiles : warmExchange(k)
  \/ warmCleaned
  \/ \E run \in Runs : cleanupUnlink(run)
  \/ \E run \in Runs : cleanupRmdir(run)

SpecWarm == InitWarm /\ [][WarmNext]_vars

InitAll ==
  /\ variant \in {"direct", "gapi", "pool1", "pool2"}
  /\ InitCommon
  /\ InitEnv
SpecAll ==
  InitAll /\ [][DirectNext \/ GapiNext \/ Pool1Next \/ Pool2Next \/ Tick]_vars

\* =============================================================== claims
Done(e) == pc[e] = "done"

\* the delete requests execution e has issued
Deletes(e) == {k \in 1..Len(log[e]) : log[e][k].op = "delete"}

\* the export of execution e has answered with the text
ExportSucceeded(e) ==
  /\ \E k \in 1..Len(log[e]) : log[e][k].op = "export"
  /\ pc[e] \in {"reauth", "delete", "done"}
  /\ "export" \notin failed[e]

\* the delete of execution e failed (in the googleapis variant: also when
\* no client for it could be had)
DeleteFailed(e) == failed[e] \cap {"delete", "delete_client"} # {}

\* C1: every performOcr execution that obtained an artifact id from the
\* upload has issued exactly one delete request by the time it returns its
\* Result, and never more than one before, whatever the export did.
C1_ExactlyOneDelete ==
  \A e \in Execs :
    /\ Cardinality(Deletes(e)) <= 1
    /\ (Done(e) /\ googleDocId[e] # 0) => Cardinality(Deletes(e)) = 1

\* a client is in use by e from the moment e has it until the last remote
\* call of e has answered
InUse(e) ==
  googleClient[e] # NoClient /\ pc[e] \in {"upload", "export", "delete"}

\* C2: in the pooled service no client object is in use by two executions
\* at the same time.
C2_SessionExclusive ==
  \A e1, e2 \in Execs :
    (e1 # e2 /\ InUse(e1) /\ InUse(e2)) => googleClient[e1] # googleClient[e2]

\* C3 as stated: every returned Result with success = true has an empty
\* error.
C3_SuccessImpliesNoError ==
  \A e \in Execs : (Done(e) /\ result[e].success) => result[e].error = <<>>

CleanupPrefixes == {"Cleanup Error", "Failed to delete temporary Google Doc"}

\* C3 amended: every returned Result with success = true has an empty
\* error, unless the delete failed: then the error is the cleanup error of
\* that delete and nothing else.
C3_SuccessErrorIsCleanupOnly ==
  \A e \in Execs :
    (Done(e) /\ result[e].success) =>
      IF DeleteFailed(e)
        THEN /\ Len(result[e].error) = 1
             /\ result[e].error[1].p \in CleanupPrefixes
        ELSE result[e].error = <<>>

C3_Witness ==
  \E e \in Execs : Done(e) /\ result[e].success /\ DeleteFailed(e)

\* C4: every returned Result with success = false has the empty text.
C4_FailureImpliesNoText ==
  \A e \in Execs : (Done(e) /\ ~result[e].success) => result[e].text = ""

C4_Witness ==
  \E e \in Execs :
    /\ Done(e) /\ ~result[e].success
    /\ "export" \in failed[e] /\ DeleteFailed(e)

\* C5: performOcr never raises: whichever step fails, the execution
\* returns a Result, and that Result carries an error.
C5_NeverRaises ==
  \A e \in Execs :
    /\ pc[e] # "raised"
    /\ (Done(e) /\ failed[e] # {}) => result[e].error # <<>>

C5_Witness ==
  /\ \A e \in Execs : Done(e)
  /\ \E e \in Execs : "input" \in failed[e]
  /\ \E e \in Execs : {"export", "delete"} \subseteq failed[e]

Responded == response # NoResponse

\* C6: the response to a non-empty batch holds one Result for each
\* element, in order: a validation failure for each element that is not
\* valid, and the pipeline's Result for every other.
C6_OneResultPerItem ==
  (Responded /\ Len(request.items) > 0) =>
    /\ Len(response.results) = Len(request.items)
    /\ \A k \in 1..Len(request.items) :
         IF request.items[k] = "valid"
           THEN /\ Done(k)
                /\ response.results[k] = Timed(result[k], "item_duration")
           ELSE /\ ~response.results[k].success
                /\ response.results[k].error[1].c = "validation"

\* C7: the handler sends its response only when every performOcr it
\* called has returned.
C7_RespondsAfterAll ==
  Responded => Running(request.items) = {}

\* C8: a call of getAccessToken that starts right after a call for the
\* same identity has returned a token (the token is in the cache, no time
\* has passed) performs no further token exchange.
C8_SecondCallIsCacheHit ==
  [][\A i \in Idents :
       (tokenCache[i].present /\ tokenCache[i].age = 0)
         => exchanges'[i] = exchanges[i]]_vars

\* two calls for one identity have returned its token, the second from the
\* cache, after one exchange
C8_Witness ==
  \E i \in Idents :
    /\ exchanges[i] = 1
    /\ tokenCache[i].present /\ tokenCache[i].age = 0
    /\ \A e \in Execs :
         (\E x \in Execs : accessToken[e] = Bearer(i, x)) /\ Done(e)

MaxPoolSize ==
  IF variant = "pool1" THEN MAX_POOL_SIZE_pool1 ELSE MAX_POOL_SIZE_pool2

\* C9: clientPool never holds more than MAX_POOL_SIZE clients.
C9_PoolBounded == Len(clientPool) <= MaxPoolSize

\* the pool is full and a returning execution found it full: its client
\* was dropped
C9_Witness ==
  /\ Len(clientPool) = MaxPoolSize
  /\ Cardinality({e \in Execs : Done(e) /\ googleClient[e] # NoClient})
       > MaxPoolSize

\* C10: when the export succeeded and the delete then failed, the
\* returned Result has success = true and the exported text.
C10_DeleteFailureKeepsExport ==
  \A e \in Execs :
    (Done(e) /\ ExportSucceeded(e) /\ DeleteFailed(e)) =>
      result[e].success /\ result[e].text = exported[e]

C10_Witness ==
  \E e \in Execs :
    /\ Done(e) /\ ExportSucceeded(e) /\ DeleteFailed(e)
    /\ exported[e] # ""

\* the prefixes under which a cleanup error is appended to an earlier error
CleanupAppendPrefixes ==
  {"; Cleanup Error",
   "; Cleanup errors: Failed to delete temporary Google Doc"}

\* C11: when the export failed and the delete failed too, the error of the
\* returned Result holds both causes: first the export's error, as it was
\* recorded, then the cleanup error appended to it.
C11_BothCausesKept ==
  \A e \in Execs :
    (Done(e) /\ "export" \in failed[e] /\ DeleteFailed(e)) =>
      /\ Len(result[e].error) = 2
      /\ result[e].error[1].c = "export"
      /\ result[e].error[1].p \notin CleanupPrefixes \cup CleanupAppendPrefixes
      /\ result[e].error[2].p \in CleanupAppendPrefixes

C11_Witness ==
  \E e \in Execs :
    /\ Done(e) /\ "export" \in failed[e] /\ "delete" \in failed[e]
    /\ Len(result[e].error) = 2

\* execution e is suspended at the await of a remote call
AwaitsRemote(e) == pc[e] \in {"exchange", "upload", "export", "delete"}

\* C12: no performOcr execution is left waiting for good on an endpoint
\* that does not answer: whenever it awaits a remote call, the code after
\* the await can still run (with the answer, or with the failure a timeout
\* gives), so that it returns its Result.
C12_NoCallWaitsForever ==
  \A e \in Execs :
    AwaitsRemote(e) =>
      ENABLED (\/ directGetAccessToken(e) \/ directUpload(e)
               \/ directExport(e) \/ directDelete(e))

\* C13: a single-object body is answered with an array holding exactly one
\* Result, an array body with the object {meta, results} holding one
\* Result for each element.
C13_ResponseShape ==
  (Responded /\ response.status = 200) =>
    IF request.isArray
      THEN /\ response.envelope
           /\ Len(response.results) = Len(request.items)
      ELSE /\ ~response.envelope
           /\ Len(response.results) = 1

\* no remote call has been made for the request
NoRemoteCall ==
  /\ \A e \in Execs : log[e] = <<>>
  /\ \A i \in Idents : exchanges[i] = 0

\* C14: a request with a payload that decodes to more than 5 MB is
\* answered with status 400 and a failed Result, and no remote call is
\* made for it.
C14_OversizeIs400 ==
  (Responded /\ PayloadTooLarge(request.items)) =>
    /\ response.status = 400
    /\ \A k \in 1..Len(response.results) : ~response.results[k].success
    /\ NoRemoteCall

\* the elements that fail a check of the handler
LocallyInvalid == {"missing", "noname", "scalar", "baduri", "oversize"}

\* C15: for every element that fails local validation, performOcr is
\* never called and the response holds a failed Result with an error for
\* that element.
C15_ValidationShortCircuits ==
  \A k \in 1..Len(request.items) :
    request.items[k] \in LocallyInvalid =>
      /\ pc[k] = "idle"
      /\ Responded =>
           /\ k <= Len(response.results)
           /\ ~response.results[k].success
           /\ response.results[k].error # <<>>

\* C16: an empty array is answered with exactly one failed Result that
\* carries an error, and no pipeline runs for it.
C16_EmptyBatchOneResult ==
  (Responded /\ request.isArray /\ Len(request.items) = 0) =>
    /\ Len(response.results) = 1
    /\ ~response.results[1].success
    /\ response.results[1].error # <<>>
    /\ \A e \in Execs : pc[e] = "idle"
    /\ NoRemoteCall

C16_Witness ==
  /\ request = [isArray |-> TRUE, items |-> <<>>]
  /\ response.status = 400

\* C17: every array getCredentialFiles returns to a caller holds at least
\* one path: a call that finds no identity fails instead, also when an
\* earlier call has failed, with the bundle and with the directory
C17_NeverEmptyList ==
  \A e \in Execs :
    credCall[e].files.kind = "list" => Len(credCall[e].files.files) >= 1

\* C18: when the source holds a valid entry, no call of getRandomCredentials
\* ends with a malformed entry, neither as the credentials it returns nor as
\* the reason it throws
C18_MalformedSkipped ==
  (\E k \in 1..Len(credSource.entries) : credSource.entries[k] = "valid")
    => \A e \in Execs :
         credCall[e].picked.entry # 0
           => credSource.entries[credCall[e].picked.entry] = "valid"

\* C19: a token exchange that is answered with an error status, or with a
\* response that holds no token, makes getAccessToken fail: the execution
\* issues no upload and its Result carries an error, which is the API error
\* with the remote detail when the remote answered with an error status;
\* and the token cache holds nothing but tokens
C19_ExchangeFailureIsError ==
  /\ \A e \in Execs :
       "token" \in failed[e] =>
         /\ \A k \in 1..Len(log[e]) : log[e][k].op # "upload"
         /\ Done(e) => (/\ result[e].error # <<>>
                        /\ "token_status" \in failed[e]
                             => result[e].error[1].p = "API Error")
  /\ \A i \in Idents : tokenCache[i].present => Truthy(tokenCache[i].tok)

\* C20: the document name of the upload is made of characters of
\* [a-zA-Z0-9._-] only: behind the prefix it repeats the original file name
\* character by character, with "_" in place of every character outside the
\* class; the fileName of the Result is the original file name
C20_SafeDocumentName ==
  LET orig == fileNaming.originalFileName
      sent == fileNaming.safeFileName
  IN /\ fileNaming.pc \in {"result", "upload"} => fileNaming.fileName = orig
     /\ fileNaming.pc = "upload" =>
          /\ \A k \in 1..Len(sent) : sent[k] \in SafeChars
          /\ Len(sent) > Len(NamePrefix) + Len(orig)
          /\ \A k \in 1..Len(orig) :
               sent[Len(NamePrefix) + k] =
                 IF orig[k] \in SafeChars THEN orig[k] ELSE "_"

C20_Witness ==
  /\ fileNaming.pc = "upload"
  /\ \E k \in 1..Len(fileNaming.originalFileName) :
       fileNaming.originalFileName[k] \in {"/", " "}
  /\ \E k \in 1..Len(fileNaming.originalFileName) :
       fileNaming.originalFileName[k] \in {"a", "."}

\* the keys under which the direct-API pipeline records its phases
TimingPhases ==
  {"1_auth_token", "2_upload_to_gdoc", "3_export_as_text",
   "4_delete_temp_doc", "total_duration_direct_api"}

\* C21: the Result of every valid element of a batch has a timing entry for
\* each of the phases auth, upload, export, delete and total, whatever the
\* remote calls answered
C21_AllPhasesTimed ==
  (Responded /\ response.status = 200) =>
    \A k \in 1..Len(request.items) :
      request.items[k] = "valid"
        => TimingPhases \subseteq response.results[k].timing

\* C22: a POST /api/ocr/upload without files is answered 400 with one failed
\* Result and starts no pipeline; one with files calls performOcr once, for
\* the first file, and its response is the array of the Result of that call
C22_UploadFirstFileOnly ==
  \A r \in Execs :
    LET u == uploads[r] IN
    /\ u.files = 0 =>
         /\ u.called = <<>> /\ pc[r] = "idle" /\ log[r] = <<>>
         /\ u.response.status = 400
         /\ Len(u.response.results) = 1
         /\ ~u.response.results[1].success
    /\ u.files >= 1 =>
         /\ u.called = <<1>>
         /\ u.response # NoResponse =>
              /\ Done(r)
              /\ u.response.status = 200
              /\ u.response.results = <<Timed(result[r], "total_duration")>>

C22_Witness ==
  /\ uploads[1].files = 2 /\ uploads[1].response.status = 200
  /\ uploads[2].files = 0 /\ uploads[2].response.status = 400

\* the operation of the request a step adds to the log of e
Issued(e) == log'[e][Len(log'[e])].op

\* C23: an execution issues its requests in the order upload, export,
\* delete, and the step in which it issues the delete puts nothing into the
\* pool: the client goes back only once the delete has been answered
C23_PhasesInOrder ==
  [][\A e \in Execs :
       /\ Len(log'[e]) > Len(log[e]) =>
            /\ Issued(e) = "upload" => log[e] = <<>>
            /\ Issued(e) = "export" => log[e][Len(log[e])].op = "upload"
            /\ Issued(e) = "delete" => log[e][Len(log[e])].op = "export"
       /\ (pc[e] # "delete" /\ pc'[e] = "delete")
            => Len(clientPool') <= Len(clientPool)]_vars

\* C24: an execution of the direct-API pipeline that failed to acquire
\* credentials or a token issues no upload, export or delete, and returns
\* a Result with success false and an error
C24_AcquireFailureStops ==
  \A e \in Execs :
    failed[e] \cap {"credentials", "token"} # {} =>
      /\ log[e] = <<>>
      /\ Done(e) => (~result[e].success /\ result[e].error # <<>>)

\* C25: an execution of the direct-API pipeline whose upload failed or
\* returned no id issues no export and no delete, and returns a Result with
\* success false and the error of the upload
C25_UploadFailureStops ==
  \A e \in Execs :
    "upload" \in failed[e] =>
      /\ Len(log[e]) = 1 /\ log[e][1].op = "upload"
      /\ pc[e] = "done"
      /\ ~result[e].success
      /\ Len(result[e].error) = 1 /\ result[e].error[1].c = "upload"

C25_Witness ==
  \E e \in Execs :
    /\ Done(e) /\ "upload" \in failed[e]
    /\ Truthy(accessToken[e])
    /\ result[e].error[1].p = "API Error"

\* C26: a call of performOcr that finds the pool non-empty gets the first
\* pooled client from getGoogleClient at once: no credential file is read, no
\* identity selected, no client authorized or cached, and the pool is the
\* old one without that client (an execution whose arguments throw gives the
\* client back in the same step)
C26_PooledClientReused ==
  [][\A e \in Execs :
       (pc[e] = "idle" /\ pc'[e] # "idle" /\ Len(clientPool) > 0) =>
         /\ googleClient'[e] = Head(clientPool)
         /\ pc'[e] \notin {"client", "credfiles", "auth"}
         /\ selected' = selected /\ clientCache' = clientCache
         /\ inputOk'[e] => clientPool' = Tail(clientPool)]_vars

C26_Witness ==
  /\ Done(1) /\ googleClient[1] # NoClient
  /\ pc[2] = "upload" /\ googleClient[2] = googleClient[1]
  /\ clientPool = <<>>

\* the step in which execution e leaves its try block, and the one in which
\* its delete is answered
LeavesTry(e) ==
  pc[e] \notin {"delete", "done", "raised"} /\ pc'[e] \in {"delete", "done"}
DeleteAnswered(e) == pc[e] = "delete" /\ pc'[e] # "delete"

\* a step of the pooled service releases as it should
ReleasesAsItShould ==
  \A e \in Execs :
    /\ (LeavesTry(e) /\ googleClient'[e] # NoClient) =>
         \/ clientPool' = Append(clientPool, googleClient'[e])
         \/ /\ pc[e] = "idle" /\ clientPool # <<>>
            /\ clientPool' = Append(Tail(clientPool), googleClient'[e])
         \/ clientPool' = clientPool /\ Len(clientPool) = MaxPoolSize
    /\ DeleteAnswered(e) => clientPool' = clientPool

\* C27: in the pooled service an execution that holds a client releases it
\* when it leaves its try block, whatever failed: the client is appended to
\* the pool unless the pool is full; no other step of the execution changes
\* the pool, so the release happens once
C27_ReleasedOnce ==
  [][(variant \in {"pool1", "pool2"}) => ReleasesAsItShould]_vars

C27_Witness ==
  /\ variant = "pool2"
  /\ \A e \in Execs :
       /\ Done(e) /\ googleClient[e] # NoClient
       /\ \E k \in 1..Len(clientPool) : clientPool[k] = googleClient[e]
  /\ "upload" \in failed[1]
  /\ {"export", "delete"} \subseteq failed[2]

\* C28: whenever an execution is about to get a client or credentials
\* without a pooled client, every identity can be the one it gets, whatever
\* earlier executions used or cached
C28_EveryIdentitySelectable ==
  \A e \in Execs, i \in Idents :
    /\ (variant = "pool1" /\ MayStart(e) /\ clientPool = <<>>) =>
         ENABLED (pool1PerformOcr(e)
                  /\ (pc'[e] = "client" \/ googleClient'[e].cred = i))
    /\ (variant = "pool1" /\ pc[e] = "client") =>
         ENABLED (pool1GetGoogleClient(e) /\ googleClient'[e].cred = i)
    /\ (variant = "pool2" /\ pc[e] = "credfiles") =>
         ENABLED (pool2GetCredentialFiles(e)
                  /\ (selected'[e] = i \/ googleClient'[e].cred = i))
    /\ (variant = "direct" /\ pc[e] = "creds") =>
         ENABLED (directGetRandomCredentials(e)
                  /\ result'[e].credentialUsed = i)

\* the executions that called getAccessToken for identity i and found the
\* cache empty
Exchanging(i) ==
  {e \in Execs : result[e].credentialUsed = i
                 /\ (pc[e] = "exchange" \/ accessToken[e].by = e
                     \/ "token" \in failed[e])}

\* what holds of the tokens in every state
TokensFromExchanges ==
  /\ \A i \in Idents : exchanges[i] <= Cardinality(Exchanging(i))
  /\ \A e \in Execs :
       Truthy(accessToken[e]) =>
         /\ accessToken[e].id = result[e].credentialUsed
         /\ accessToken[e].by \in Exchanging(accessToken[e].id)
         /\ Truthy(accessToken[accessToken[e].by])

\* the token in the cache changes only when an exchange returns, and then
\* it is the token of that exchange
LastWriteWins ==
  \A i \in Idents :
    tokenCache'[i].tok # tokenCache[i].tok =>
      \E e \in Execs :
        /\ pc[e] = "exchange" /\ pc'[e] # "exchange"
        /\ result[e].credentialUsed = i
        /\ Truthy(accessToken'[e]) => tokenCache'[i].tok = accessToken'[e]
        /\ Truthy(accessToken'[e]) \/ ~tokenCache'[i].present

\* C29: executions that call getAccessToken for one identity while its
\* token is not cached perform one exchange each at most; every token an
\* execution gets was returned by an exchange for its identity; and the
\* cache holds the token of the exchange that returned last
C29_ConcurrentExchanges ==
  [][TokensFromExchanges' /\ LastWriteWins]_vars

C29_Witness ==
  /\ exchanges[1] = 2
  /\ accessToken[1] = Bearer(1, 1) /\ accessToken[2] = Bearer(1, 2)
  /\ tokenCache[1].present /\ tokenCache[1].tok = Bearer(1, 1)

\* the step in which getAccessToken returns a cached token to execution e
ServedFromCache(e) ==
  pc[e] = "creds" /\ pc'[e] # "exchange" /\ Truthy(accessToken'[e])

\* C30: a token that getAccessToken returns from the cache was stored at
\* most 45 minutes before (TOKEN_TTL), which is less than the lifetime of
\* the token (TOKEN_LIFETIME): no expired token is served
C30_NoExpiredTokenServed ==
  [][\A e \in Execs :
       ServedFromCache(e) =>
         LET entry == tokenCache[accessToken'[e].id] IN
         /\ entry.present /\ entry.tok = accessToken'[e]
         /\ entry.age <= TOKEN_TTL
         /\ entry.age < TOKEN_LIFETIME]_vars

C30_Witness ==
  /\ pc[2] = "upload" /\ accessToken[2] = Bearer(1, 1)
  /\ tokenCache[1].tok = Bearer(1, 1) /\ tokenCache[1].age = TOKEN_TTL
  /\ Done(1)

\* the invocations of cleanupTempFiles that have been made, and those that
\* have returned
Called == {run \in Runs : cleanupRuns[run].pc # "idle"}
Returned == {run \in Runs : cleanupRuns[run].pc = "done"}

\* a step removes from the disk exactly the files it stops tracking, and
\* adds none; once an invocation has returned, further steps change neither
\* the tracked set nor the disk; no invocation raises; and when all have
\* returned no tracked file is left that could be removed
CleanupStepOk ==
  /\ tempDisk' \subseteq tempDisk
  /\ tempDisk \ tempDisk' = createdTempFiles \ createdTempFiles'
  /\ createdTempFiles' \subseteq createdTempFiles
  /\ Returned # {} =>
       (tempDisk' = tempDisk /\ createdTempFiles' = createdTempFiles)
  /\ \A run \in Runs : cleanupRuns'[run].pc # "raised"
  /\ (Called' # {} /\ Returned' = Called') =>
       /\ (createdTempFiles' \cap tempDisk') \subseteq unremovable
       /\ (unremovable = {} /\ createdTempFiles' \subseteq tempDisk')
            => createdTempFiles' = {}

\* C32: cleanupTempFiles never raises and is idempotent: called twice, one
\* after the other or at the same time, or with tracked files that are
\* already gone, it leaves the tracked set and the disk as one call leaves
\* them; when every tracked file could be removed, none is tracked after
C32_CleanupIdempotent == [][CleanupStepOk]_vars

C32_Witness ==
  /\ cleanupRuns[<<"call", 1>>].pc = "done"
  /\ cleanupRuns[<<"call", 2>>].pc = "done"
  /\ createdTempFiles = {2} /\ tempDisk = {} /\ unremovable = {}

\* C34: a source that holds identities is resolved once: of all the calls
\* of getCredentialFiles, also those made while the first is still running,
\* at most one lists the directory or writes the files of the bundle
C34_ResolvedOnce ==
  (credSource.readable /\ Len(credSource.entries) >= 1) =>
    Cardinality({e \in Execs : credCall[e].scanned}) <= 1

\* C37: the pool never holds the same client object twice, however the
\* executions that take clients from the pool, from the client cache or
\* from a new authorization interleave with the releases
C37_NoClientTwiceInPool ==
  \A j, k \in 1..Len(clientPool) : j # k => clientPool[j] # clientPool[k]

\* C36: every delete request is issued with the identity the upload of the
\* same execution was issued with, and no execution selects credentials or
\* authenticates again in order to issue its delete
C36_DeleteWithUploadIdentity ==
  \A e \in Execs :
    /\ \A k \in Deletes(e) :
         \E j \in 1..(k - 1) :
           log[e][j].op = "upload" /\ log[e][j].by = log[e][k].by
    /\ pc[e] # "reauth"
    /\ "delete_client" \notin failed[e]

\* C35: the answer to a body with elements has as many Results as the body
\* has elements, meta.processedCount is that number too, and the k-th
\* Result carries the originalFileName of the k-th element (where the
\* element has one)
C35_ResultsMatchItems ==
  (Responded /\ Len(request.items) > 0) =>
    /\ Len(response.results) = Len(request.items)
    /\ Len(response.fileNames) = Len(request.items)
    /\ response.envelope => response.processedCount = Len(request.items)
    /\ \A k \in 1..Len(request.items) :
         originalFileName(request.items, k) # NoFileName =>
           /\ k <= Len(response.fileNames)
           /\ response.fileNames[k] = originalFileName(request.items, k)

\* the exchange of execution e has been answered with a token in this step
ExchangeSucceeds(e) ==
  pc[e] = "exchange" /\ accessToken'[e] # accessToken[e]
    /\ Truthy(accessToken'[e])

\* a running cleanupTempFiles takes a step
CleanupSteps ==
  \E run \in Runs :
    /\ cleanupRuns[run].pc \in {"unlink", "rmdir"}
    /\ cleanupRuns'[run] # cleanupRuns[run]

ExchangeCleansUp ==
  /\ \A e \in Execs :
       (ExchangeSucceeds(e) /\ createdTempFiles # {}) =>
         /\ cleanupRuns'[<<"exchange", e>>] =
              [pc |-> "unlink", todo |-> SetToSeq(createdTempFiles)]
         /\ accessToken'[e] = tokenCache'[result[e].credentialUsed].tok
         /\ pc'[e] # "raised"
         /\ "token" \notin failed'[e]
  /\ CleanupSteps =>
       /\ UNCHANGED <<pc, result, accessToken, tokenCache, failed, log>>
       /\ \A run \in Runs : cleanupRuns'[run].pc # "raised"

\* C31: with the bundle, a token exchange that succeeds while materialized
\* files are tracked starts a cleanup of exactly those files, and no step
\* of a cleanup, failed or not, touches the execution, the token it got or
\* the token cache
C31_ExchangeTriggersCleanup == [][ExchangeCleansUp]_vars

\* an execution has finished with success on a token of its own exchange,
\* whose cleanup has returned without being able to remove a tracked file
C31_Witness ==
  \E e \in Execs :
    /\ pc[e] = "done" /\ result[e].success
    /\ accessToken[e] = Bearer(result[e].credentialUsed, e)
    /\ cleanupRuns[<<"exchange", e>>].pc = "done"
    /\ createdTempFiles \cap tempDisk \cap unremovable # {}

\* no performOcr, no getRandomCredentials and no cleanupTempFiles is running
Quiescent ==
  /\ \A e \in Execs : pc[e] \in {"idle", "done", "raised"}
  /\ \A e \in Execs : credCall[e].pc \in {"idle", "done"}
  /\ \A run \in Runs : cleanupRuns[run].pc \in {"idle", "done", "raised"}

\* C38: with the bundle, when nothing is running and a token exchange has
\* succeeded, no materialized file is tracked or on disk (every file being
\* removable)
C38_NoFilesLeftBehind ==
  (/\ credSource.mode = "env"
   /\ unremovable = {}
   /\ Quiescent
   /\ \E i \in Idents : tokenCache[i].present) =>
    (createdTempFiles = {} /\ tempDisk = {})

\* the invocations of cleanupTempFiles made by the listeners of
\* registerTempCleanup
ShutdownRuns == {<<"exit", 0>>} \cup ({"signal"} \X Signals)

\* C33: the listeners registered by registerTempCleanup invoke
\* cleanupTempFiles at most once in the life of the process, whatever the
\* number of getCredentialFiles calls and whether the process exits by
\* itself or on a signal, and no such invocation raises
C33_ShutdownCleanupOnce ==
  /\ Cardinality({run \in ShutdownRuns : cleanupRuns[run] # NoRun}) <= 1
  /\ \A run \in ShutdownRuns : cleanupRuns[run].pc # "raised"

\* the identities of the credential source whose token exchange succeeds
WarmableIdentities ==
  {i \in warm.accepts :
     /\ credSource.readable
     /\ i <= Len(credSource.entries)
     /\ credSource.entries[i] = "valid"}

\* C39: preWarmAuthTokens never raises, and when it has returned (its
\* getCredentialFiles having given the full list) the token cache holds a
\* token for every identity whose exchange succeeds, whatever the other
\* identities do and however the tasks and the cleanups interleave
C39_WarmUpComplete ==
  /\ warm.pc # "raised"
  /\ (/\ warm.pc = "done"
      /\ credCall[1].files = FileList(Len(credSource.entries))) =>
       \A i \in WarmableIdentities : Truthy(tokenCacheGet(i))

====
